---- MODULE Spec2Model ----
(***************************************************************************)
(* Cost-basis ledger, trade store and snapshot backfill of samcm/pyre.     *)
(*                                                                         *)
(* Prices are integers (cents), sizes are whole shares, so a PnL of 320    *)
(* stands for 3.20.  Go computes in float64; rounding is not modelled.     *)
(* A nil *float64 / *string / *time.Time is written NULL where the schema  *)
(* allows the column to be NULL (trades.outcome); the other trade columns  *)
(* are NOT NULL in the schema and are always present in a stored row.      *)
(***************************************************************************)
EXTENDS Integers, Sequences, FiniteSets, TLC

\* ------------------------------------------------------------------ bounds

\* Longest trade slice a ledger pass is fed in SpecLedger.
MaxLedgerTrades == 4

\* time.Truncate(24 * time.Hour): ticks of the model clock per day.
TicksPerDay == 2

\* Accounts in the users table, rows the trades table can hold, and the
\* latest trade timestamp, in Spec.
NumUsers == 2

MaxStored == 3

MaxTs == 2

\* Sync cycles (runs of syncAll) started, and calls that fail, in a run of
\* the sync service.
MaxCycles == 2

MaxFaults == 1

\* ------------------------------------------------------------- vocabulary

NULL == "NULL"

BUY == "BUY"

SELL == "SELL"

Conditions == {"c1"}

Outcomes == {"Yes", "No"}

\* The feed of the generic ledger runs: every trade on the first outcome, a
\* BUY and a SELL on each other outcome, and a BUY and a SELL whose outcome
\* is missing.  Then the feed of the worked example.
GenericFeed ==
    [cond : Conditions, outcome : {"Yes"}, side : {BUY, SELL},
     price : {4, 7}, size : {1, 2}]
    \cup [cond : Conditions, outcome : (Outcomes \ {"Yes"}) \cup {NULL},
          side : {BUY, SELL}, price : {7}, size : {1}]

ExampleFeed ==
    { [cond |-> "c1", outcome |-> "Yes", side |-> BUY, price |-> 40, size |-> 10],
      [cond |-> "c1", outcome |-> "Yes", side |-> BUY, price |-> 60, size |-> 5],
      [cond |-> "c1", outcome |-> "Yes", side |-> SELL, price |-> 70, size |-> 12] }

\* The ids of the rows of table users (created by ensureUsers at start), and
\* the names a backfill can be asked for: 0 names no row.
Users == 1..NumUsers

Usernames == 0..NumUsers

\* The trade rows sync can hand to InsertTrade in Spec.
StoreTrades ==
    [user : Users, cond : Conditions, outcome : {"Yes"}, side : {BUY, SELL},
     price : {4, 7}, size : {1}, ts : 0..MaxTs]
    \cup [user : Users, cond : Conditions, outcome : {NULL}, side : {SELL},
          price : {7}, size : {1}, ts : 0..MaxTs]

NoErr == "nil"

VARIABLES
    feed,          \* the trade records the upstream can deliver in this run
    processed,     \* the chronological trade slice fed to both passes so far
    turn,          \* which pass takes its next loop iteration
    backfillPass,  \* locals of BackfillUser's loop
    livePass,      \* locals of CalculateRealizedPnlFromTrades' loop
    trades,        \* the rows of table trades
    snapshots,     \* the rows of table pnl_snapshots, per user_id, by row id
    last,          \* the last storage or backfill call and what it returned
    positions,     \* the rows of table positions
    officialPnl,   \* users.official_pnl per user id: <<>> is NULL, <<v>> a value
    lastSynced,    \* users.last_synced per user id: <<>> is NULL, <<t>> a time
    cycles,        \* the sync cycles (runs of syncAll) started so far
    clock,         \* time.Now() of the model
    accounts,      \* the keys of service.users, the configured accounts
    loopState,     \* "running"; "stopped" once Stop ran or the context was
                   \* cancelled; "exited" once syncLoop has returned
    budget         \* the failures the environment may still inject

ledgerVars == <<feed, processed, turn, backfillPass, livePass>>

storeVars == <<trades, snapshots, last>>

accountVars == <<positions, officialPnl, lastSynced>>

syncVars == <<cycles, clock, accounts, loopState, budget>>

vars == <<feed, processed, turn, backfillPass, livePass, trades, snapshots, last,
          positions, officialPnl, lastSynced, cycles, clock, accounts,
          loopState, budget>>

\* ---------------------------------------------------------------- helpers

\* A Go map read: the zero value (a nil slice) when the key is absent.
MapGet(m, k) == IF k \in DOMAIN m THEN m[k] ELSE <<>>

\* A Go map write m[k] = v.
MapPut(m, k, v) == [x \in (DOMAIN m) \cup {k} |-> IF x = k THEN v ELSE m[x]]

Tail1(s) == SubSeq(s, 2, Len(s))

\* Mutant: the key is the condition alone.
positionKey_ConditionOnly(trade) == <<trade.cond, "Yes">>

positionKey(trade) == <<trade.cond, trade.outcome>>

\* t.Truncate(24 * time.Hour): the start of the day of ts.
Truncate(ts) == (ts \div TicksPerDay) * TicksPerDay

\* ------------------------------------------- backfill ledger (backfill.go)

\* Mutant: the loop takes the newest lot of the key first.
RECURSIVE fifoLoop_NewestFirst(_, _, _, _)
fifoLoop_NewestFirst(lots, remainingToSell, sellPrice, realizedPnl) ==
    IF ~(remainingToSell > 0 /\ Len(lots) > 0)
    THEN [lots |-> lots, remainingToSell |-> remainingToSell,
          realizedPnl |-> realizedPnl]
    ELSE LET n == Len(lots)
             currentLot == lots[n] IN
         IF currentLot.size <= remainingToSell
         THEN fifoLoop_NewestFirst(SubSeq(lots, 1, n - 1),
                       remainingToSell - currentLot.size,
                       sellPrice,
                       realizedPnl + (sellPrice - currentLot.price) * currentLot.size)
         ELSE fifoLoop_NewestFirst([lots EXCEPT ![n].size = @ - remainingToSell],
                       0,
                       sellPrice,
                       realizedPnl + (sellPrice - currentLot.price) * remainingToSell)

\* Mutant: a partly sold lot is dropped from the queue.
RECURSIVE fifoLoop_PartialDropsLot(_, _, _, _)
fifoLoop_PartialDropsLot(lots, remainingToSell, sellPrice, realizedPnl) ==
    IF ~(remainingToSell > 0 /\ Len(lots) > 0)
    THEN [lots |-> lots, remainingToSell |-> remainingToSell,
          realizedPnl |-> realizedPnl]
    ELSE LET currentLot == lots[1] IN
         IF currentLot.size <= remainingToSell
         THEN fifoLoop_PartialDropsLot(SubSeq(lots, 2, Len(lots)),
                       remainingToSell - currentLot.size,
                       sellPrice,
                       realizedPnl + (sellPrice - currentLot.price) * currentLot.size)
         ELSE fifoLoop_PartialDropsLot(SubSeq(lots, 2, Len(lots)),
                       0,
                       sellPrice,
                       realizedPnl + (sellPrice - currentLot.price) * remainingToSell)

\* Mutant: a lot is removed only when the sell is larger than it.
RECURSIVE fifoLoop_KeepsEmptyLot(_, _, _, _)
fifoLoop_KeepsEmptyLot(lots, remainingToSell, sellPrice, realizedPnl) ==
    IF ~(remainingToSell > 0 /\ Len(lots) > 0)
    THEN [lots |-> lots, remainingToSell |-> remainingToSell,
          realizedPnl |-> realizedPnl]
    ELSE LET currentLot == lots[1] IN
         IF currentLot.size < remainingToSell
         THEN fifoLoop_KeepsEmptyLot(Tail1(lots),
                       remainingToSell - currentLot.size,
                       sellPrice,
                       realizedPnl + (sellPrice - currentLot.price) * currentLot.size)
         ELSE fifoLoop_KeepsEmptyLot([lots EXCEPT ![1].size = @ - remainingToSell],
                       0,
                       sellPrice,
                       realizedPnl + (sellPrice - currentLot.price) * remainingToSell)

\* The for-loop of calculateRealizedPnlFIFO, one iteration per unfolding.
RECURSIVE fifoLoop(_, _, _, _)
fifoLoop(lots, remainingToSell, sellPrice, realizedPnl) ==
    IF ~(remainingToSell > 0 /\ Len(lots) > 0)
    THEN [lots |-> lots, remainingToSell |-> remainingToSell,
          realizedPnl |-> realizedPnl]
    ELSE LET currentLot == lots[1] IN
         IF currentLot.size <= remainingToSell
         THEN fifoLoop(Tail1(lots),
                       remainingToSell - currentLot.size,
                       sellPrice,
                       realizedPnl + (sellPrice - currentLot.price) * currentLot.size)
         ELSE fifoLoop([lots EXCEPT ![1].size = @ - remainingToSell],
                       0,
                       sellPrice,
                       realizedPnl + (sellPrice - currentLot.price) * remainingToSell)

\* Mutant: the shares left over once the queue is empty realize nothing.
calculateRealizedPnlFIFO_NoRemainder(costBasis, key, sellPrice, sellSize) ==
    IF key \notin DOMAIN costBasis \/ Len(costBasis[key]) = 0
    THEN [realizedPnl |-> sellPrice * sellSize, costBasis |-> costBasis]
    ELSE LET r == fifoLoop(costBasis[key], sellSize, sellPrice, 0) IN
         [realizedPnl |-> r.realizedPnl,
          costBasis |-> MapPut(costBasis, key, r.lots)]

\* calculateRealizedPnlFIFO: the realized PnL of one SELL and the cost basis
\* map it leaves behind.
calculateRealizedPnlFIFO(costBasis, key, sellPrice, sellSize) ==
    IF key \notin DOMAIN costBasis \/ Len(costBasis[key]) = 0
    THEN [realizedPnl |-> sellPrice * sellSize, costBasis |-> costBasis]
    ELSE LET r == fifoLoop(costBasis[key], sellSize, sellPrice, 0) IN
         [realizedPnl |->
              IF r.remainingToSell > 0
              THEN r.realizedPnl + sellPrice * r.remainingToSell
              ELSE r.realizedPnl,
          costBasis |-> MapPut(costBasis, key, r.lots)]

\* The locals of BackfillUser before its loop.
BackfillLocals ==
    [costBasis |-> <<>>, cumulativeRealizedPnl |-> 0, dailyPnl |-> <<>>,
     oldestDate |-> <<>>, newestDate |-> <<>>]

\* Mutant: no trade is skipped.
HasNilField_Never(trade) == FALSE

\* A stored row always has timestamp, condition, side, price and size
\* (NOT NULL columns); only the outcome can be nil.
HasNilField(trade) == trade.outcome = NULL

\* Mutant: a BUY records the running total for its day as well.
BackfillTrade_BuyRecordsDay(st, trade) ==
    IF HasNilField(trade) THEN st
    ELSE
    LET key == positionKey(trade)
        day == Truncate(trade.ts)
    IN  CASE trade.side = BUY ->
               [st EXCEPT !.costBasis =
                   MapPut(@, key, Append(MapGet(@, key),
                                         [price |-> trade.price, size |-> trade.size])),
                          !.dailyPnl = MapPut(@, day, st.cumulativeRealizedPnl)]
          [] trade.side = SELL ->
               LET r == calculateRealizedPnlFIFO(st.costBasis, key,
                                                 trade.price, trade.size)
                   cum == st.cumulativeRealizedPnl + r.realizedPnl
               IN  [st EXCEPT !.costBasis = r.costBasis,
                              !.cumulativeRealizedPnl = cum,
                              !.dailyPnl = MapPut(@, day, cum)]
          [] OTHER -> st

\* Mutant: a day keeps the total of its first SELL.
BackfillTrade_DayKeepsFirstSell(st, trade) ==
    IF HasNilField(trade) THEN st
    ELSE
    LET key == positionKey(trade)
        day == Truncate(trade.ts)
    IN  CASE trade.side = BUY ->
               [st EXCEPT !.costBasis =
                   MapPut(@, key, Append(MapGet(@, key),
                                         [price |-> trade.price, size |-> trade.size]))]
          [] trade.side = SELL ->
               LET r == calculateRealizedPnlFIFO(st.costBasis, key,
                                                 trade.price, trade.size)
                   cum == st.cumulativeRealizedPnl + r.realizedPnl
               IN  [st EXCEPT !.costBasis = r.costBasis,
                              !.cumulativeRealizedPnl = cum,
                              !.dailyPnl = IF day \in DOMAIN @ THEN @
                                           ELSE MapPut(@, day, cum)]
          [] OTHER -> st

\* One iteration of BackfillUser's loop over the trades.
BackfillTrade(st, trade) ==
    IF HasNilField(trade) THEN st
    ELSE
    LET key == positionKey(trade)
        day == Truncate(trade.ts)
        st1 == [st EXCEPT
                  !.oldestDate = IF @ = <<>> \/ trade.ts < @[1]
                                 THEN <<trade.ts>> ELSE @,
                  !.newestDate = IF @ = <<>> \/ trade.ts > @[1]
                                 THEN <<trade.ts>> ELSE @]
    IN  CASE trade.side = BUY ->
               [st1 EXCEPT !.costBasis =
                   MapPut(@, key, Append(MapGet(@, key),
                                         [price |-> trade.price, size |-> trade.size]))]
          [] trade.side = SELL ->
               LET r == calculateRealizedPnlFIFO(st1.costBasis, key,
                                                 trade.price, trade.size)
                   cum == st1.cumulativeRealizedPnl + r.realizedPnl
               IN  [st1 EXCEPT !.costBasis = r.costBasis,
                               !.cumulativeRealizedPnl = cum,
                               !.dailyPnl = MapPut(@, day, cum)]
          [] OTHER -> st1

\* ------------------------------------- live-stats ledger (storage package)

\* Mutant: a partial lot consumption is not counted as a win or a loss.
RECURSIVE liveLoop_PartialNotCounted(_, _, _, _)
liveLoop_PartialNotCounted(lots, remainingToSell, price, acc) ==
    IF ~(remainingToSell > 0 /\ Len(lots) > 0)
    THEN [lots |-> lots, remainingToSell |-> remainingToSell, acc |-> acc]
    ELSE LET lot == lots[1] IN
         IF lot.Shares <= remainingToSell
         THEN LET pnl == lot.Shares * price - lot.Shares * lot.Price
              IN  liveLoop_PartialNotCounted(
                           SubSeq(lots, 2, Len(lots)), remainingToSell - lot.Shares, price,
                           [realizedPnl |-> acc.realizedPnl + pnl,
                            wins |-> IF pnl > 0 THEN acc.wins + 1 ELSE acc.wins,
                            losses |-> IF ~(pnl > 0) /\ pnl < 0
                                       THEN acc.losses + 1 ELSE acc.losses])
         ELSE LET pnl == remainingToSell * price - remainingToSell * lot.Price
              IN  liveLoop_PartialNotCounted(
                           [lots EXCEPT ![1].Shares = @ - remainingToSell], 0, price,
                           [acc EXCEPT !.realizedPnl = @ + pnl])

\* Mutant: a lot closed at its own price counts as a win.
RECURSIVE liveLoop_ZeroIsWin(_, _, _, _)
liveLoop_ZeroIsWin(lots, remainingToSell, price, acc) ==
    IF ~(remainingToSell > 0 /\ Len(lots) > 0)
    THEN [lots |-> lots, remainingToSell |-> remainingToSell, acc |-> acc]
    ELSE LET lot == lots[1]
             matched == IF lot.Shares <= remainingToSell THEN lot.Shares
                        ELSE remainingToSell
             pnl == matched * price - matched * lot.Price
         IN  liveLoop_ZeroIsWin(
                 IF lot.Shares <= remainingToSell THEN SubSeq(lots, 2, Len(lots))
                 ELSE [lots EXCEPT ![1].Shares = @ - remainingToSell],
                 remainingToSell - matched, price,
                 [realizedPnl |-> acc.realizedPnl + pnl,
                  wins |-> IF pnl >= 0 THEN acc.wins + 1 ELSE acc.wins,
                  losses |-> IF pnl < 0 THEN acc.losses + 1 ELSE acc.losses])

\* The inner for-loop of CalculateRealizedPnlFromTrades.
RECURSIVE liveLoop(_, _, _, _)
liveLoop(lots, remainingToSell, price, acc) ==
    IF ~(remainingToSell > 0 /\ Len(lots) > 0)
    THEN [lots |-> lots, remainingToSell |-> remainingToSell, acc |-> acc]
    ELSE LET lot == lots[1] IN
         IF lot.Shares <= remainingToSell
         THEN LET costBasis == lot.Shares * lot.Price
                  proceeds == lot.Shares * price
                  pnl == proceeds - costBasis
              IN  liveLoop(Tail1(lots), remainingToSell - lot.Shares, price,
                           [realizedPnl |-> acc.realizedPnl + pnl,
                            wins |-> IF pnl > 0 THEN acc.wins + 1 ELSE acc.wins,
                            losses |-> IF ~(pnl > 0) /\ pnl < 0
                                       THEN acc.losses + 1 ELSE acc.losses])
         ELSE LET costBasis == remainingToSell * lot.Price
                  proceeds == remainingToSell * price
                  pnl == proceeds - costBasis
              IN  liveLoop([lots EXCEPT ![1].Shares = @ - remainingToSell], 0, price,
                           [realizedPnl |-> acc.realizedPnl + pnl,
                            wins |-> IF pnl > 0 THEN acc.wins + 1 ELSE acc.wins,
                            losses |-> IF ~(pnl > 0) /\ pnl < 0
                                       THEN acc.losses + 1 ELSE acc.losses])

\* The locals of CalculateRealizedPnlFromTrades before its loop.
LiveLocals == [inventory |-> <<>>, realizedPnl |-> 0, wins |-> 0, losses |-> 0]

\* One iteration of CalculateRealizedPnlFromTrades' loop over the trades.
LiveTrade(st, trade) ==
    IF HasNilField(trade) THEN st
    ELSE
    LET key == positionKey(trade) IN
    CASE trade.side = BUY ->
           [st EXCEPT !.inventory =
               MapPut(@, key, Append(MapGet(@, key),
                                     [Shares |-> trade.size, Price |-> trade.price]))]
      [] trade.side = SELL ->
           LET r == liveLoop(MapGet(st.inventory, key), trade.size, trade.price,
                             [realizedPnl |-> st.realizedPnl, wins |-> st.wins,
                              losses |-> st.losses])
           IN  [inventory |-> MapPut(st.inventory, key, r.lots),
                realizedPnl |-> r.acc.realizedPnl,
                wins |-> r.acc.wins,
                losses |-> r.acc.losses]
      [] OTHER -> st

\* ------------------------------------------------ SpecLedger: the two passes

\* Both passes are fed the same chronological slice, one trade at a time:
\* the backfill loop takes the next trade, then the live loop takes it.
InitStore ==
    /\ trades = {}
    /\ snapshots = [u \in Users |-> <<>>]
    /\ last = [op |-> "none", err |-> NoErr]

\* The users rows as CreateUser leaves them, an empty positions table, and no
\* sync cycle started.
InitAccounts ==
    /\ positions = {}
    /\ officialPnl = [u \in Users |-> <<>>]
    /\ lastSynced = [u \in Users |-> <<>>]

InitIdle ==
    /\ cycles = <<>>
    /\ clock = 0
    /\ accounts = Users
    /\ loopState = "running"
    /\ budget = 0

InitLedger ==
    /\ feed \in {GenericFeed, ExampleFeed}
    /\ processed = <<>>
    /\ turn = "backfill"
    /\ backfillPass = BackfillLocals
    /\ livePass = LiveLocals
    /\ InitStore
    /\ InitAccounts
    /\ InitIdle

BackfillStep ==
    /\ turn = "backfill"
    /\ Len(processed) < MaxLedgerTrades
    /\ \E t \in feed :
         LET trade == [cond |-> t.cond, outcome |-> t.outcome, side |-> t.side,
                       price |-> t.price, size |-> t.size, ts |-> Len(processed)]
         IN  /\ processed' = Append(processed, trade)
             /\ backfillPass' = BackfillTrade(backfillPass, trade)
    /\ turn' = "live"
    /\ UNCHANGED <<feed, livePass>>
    /\ UNCHANGED storeVars
    /\ UNCHANGED <<accountVars, syncVars>>

LiveStep ==
    /\ turn = "live"
    /\ livePass' = LiveTrade(livePass, processed[Len(processed)])
    /\ turn' = "backfill"
    /\ UNCHANGED <<feed, processed, backfillPass>>
    /\ UNCHANGED storeVars
    /\ UNCHANGED <<accountVars, syncVars>>

NextLedger == BackfillStep \/ LiveStep

SpecLedger == InitLedger /\ [][NextLedger]_vars

\* ------------------------------------------------- storage: trades table

\* UNIQUE(user_id, condition_id, timestamp, side, size, price).
NaturalKey(t) == <<t.user, t.cond, t.ts, t.side, t.size, t.price>>

\* Mutant: INSERT OR REPLACE, the conflicting row gives way to the new one.
InsertTradeRows_Replace(rows, trade) ==
    {r \in rows : NaturalKey(r) # NaturalKey(trade)} \cup {trade}

\* INSERT INTO trades ... ON CONFLICT(...) DO NOTHING.
InsertTradeRows(rows, trade) ==
    IF \E r \in rows : NaturalKey(r) = NaturalKey(trade)
    THEN rows
    ELSE rows \cup {trade}

\* SELECT ... FROM trades WHERE user_id = ? ORDER BY timestamp ASC: every
\* order of the user's rows with ascending timestamps (rows that share a
\* timestamp come in an order the query does not fix).
RECURSIVE OrderedByTimestamp(_)
OrderedByTimestamp(rows) ==
    IF rows = {} THEN {<<>>}
    ELSE LET first == {r \in rows : \A q \in rows : r.ts <= q.ts}
         IN  UNION {{<<r>> \o rest : rest \in OrderedByTimestamp(rows \ {r})} : r \in first}

GetUserTradesChronological(userID) ==
    OrderedByTimestamp({r \in trades : r.user = userID})

\* CalculateRealizedPnlFromTrades over the slice GetUserTradesChronological
\* returned: realizedPnl, wins, totalClosed.
RECURSIVE LiveLoopOver(_, _, _)
LiveLoopOver(st, slice, i) ==
    IF i > Len(slice) THEN st ELSE LiveLoopOver(LiveTrade(st, slice[i]), slice, i + 1)

CalculateRealizedPnlFromTrades(slice) ==
    LET st == LiveLoopOver(LiveLocals, slice, 1)
    IN  [realizedPnl |-> st.realizedPnl, wins |-> st.wins,
         totalClosed |-> st.wins + st.losses]

\* ------------------------------------------ storage: pnl_snapshots table

\* Mutant: the delete leaves the user's rows in place.
DeleteUserPnlSnapshots_Keeps(table, userID) == table

\* Mutant: the delete has no WHERE clause.
DeleteUserPnlSnapshots_All(table, userID) == [u \in DOMAIN table |-> <<>>]

\* DELETE FROM pnl_snapshots WHERE user_id = ?.
DeleteUserPnlSnapshots(table, userID) == [table EXCEPT ![userID] = <<>>]

\* BulkInsertPnlSnapshots, committed: the rows are appended in slice order.
BulkInsertPnlSnapshots(table, userID, rows) == [table EXCEPT ![userID] = @ \o rows]

\* ------------------------------------------------------ backfill service

RECURSIVE BackfillLoopOver(_, _, _)
BackfillLoopOver(st, slice, i) ==
    IF i > Len(slice) THEN st
    ELSE BackfillLoopOver(BackfillTrade(st, slice[i]), slice, i + 1)

\* Mutant: the total of a backfilled row adds a mark the backfill does not
\* have.
createSnapshots_Marked(userID, dailyPnl) ==
    { [UserID |-> userID, Timestamp |-> day, TotalPnl |-> dailyPnl[day] + 1,
       RealizedPnl |-> dailyPnl[day], UnrealizedPnl |-> 1] : day \in DOMAIN dailyPnl }

\* createSnapshots: one row per key of dailyPnl (the second loop of
\* BackfillUser over the trades adds no key).
createSnapshots(userID, dailyPnl) ==
    { [UserID |-> userID, Timestamp |-> day, TotalPnl |-> dailyPnl[day],
       RealizedPnl |-> dailyPnl[day], UnrealizedPnl |-> 0] : day \in DOMAIN dailyPnl }

\* sort.Slice by Timestamp (the timestamps of the rows are distinct).
RECURSIVE SortByTimestamp(_)
SortByTimestamp(rows) ==
    IF rows = {} THEN <<>>
    ELSE LET r == CHOOSE x \in rows : \A y \in rows : x.Timestamp <= y.Timestamp
         IN  <<r>> \o SortByTimestamp(rows \ {r})

\* The Result of a user without stored trades.
ZeroResult_CountsOne(username) ==
    [Username |-> username, TradesProcessed |-> 1, SnapshotsCreated |-> 0,
     TotalRealizedPnl |-> 0, OldestTradeDate |-> <<>>, NewestTradeDate |-> <<>>]

ZeroResult(username) ==
    [Username |-> username, TradesProcessed |-> 0, SnapshotsCreated |-> 0,
     TotalRealizedPnl |-> 0, OldestTradeDate |-> <<>>, NewestTradeDate |-> <<>>]

\* ---------------------------------------------------------- Spec: actions

\* sync hands a fetched trade to InsertTrade.
InsertTrade(trade) ==
    /\ Cardinality(InsertTradeRows(trades, trade)) <= MaxStored
    /\ trades' = InsertTradeRows(trades, trade)
    /\ last' = [op |-> "InsertTrade", err |-> NoErr,
                rowsAffected |-> Cardinality(trades') - Cardinality(trades)]
    /\ UNCHANGED snapshots
    /\ UNCHANGED ledgerVars
    /\ UNCHANGED <<accountVars, syncVars>>

\* The username as it is printed with %s.
Sprintf(username) == ToString(username)

\* The error of GetUser(ctx, username): sql.ErrNoRows when users has no such
\* row, any other error of the query when the call fails.
GetUser(username, failAt) ==
    IF failAt = "GetUser" THEN "failed to query user"
    ELSE IF username \notin Users THEN "user not found: " \o Sprintf(username)
    ELSE NoErr

\* The HTTP status the handler BackfillUserPnl responds with for what
\* BackfillUser returned.
BackfillUserPnl_NotFoundIs500(username, err) ==
    IF err # NoErr THEN 500 ELSE 200

BackfillUserPnl(username, err) ==
    IF err # NoErr
    THEN IF err = "failed to get user: user not found: " \o Sprintf(username)
         THEN 404
         ELSE 500
    ELSE 200

\* BackfillUser(ctx, username), start to return.  failAt is the storage call
\* that returns an error in this run, if any.
BackfillUser(username, failAt) ==
    /\ IF GetUser(username, failAt) # NoErr
       THEN /\ snapshots' = snapshots
            /\ last' = [op |-> "BackfillUser", username |-> username,
                        err |-> "failed to get user: " \o GetUser(username, failAt)]
                       @@ IF username \in Users
                          THEN [before |-> snapshots[username]]
                          ELSE [username |-> username]
       ELSE
       \E slice \in GetUserTradesChronological(username) :
         LET st == BackfillLoopOver(BackfillLocals, slice, 1)
             rows == SortByTimestamp(createSnapshots(username, st.dailyPnl))
             deleted == DeleteUserPnlSnapshots(snapshots, username)
             call == [op |-> "BackfillUser", username |-> username,
                      before |-> snapshots[username]]
         IN  IF failAt = "GetUserTradesChronological"
             THEN /\ snapshots' = snapshots
                  /\ last' = call @@ [err |-> "failed to get trades"]
             ELSE IF Len(slice) = 0
             THEN /\ snapshots' = snapshots
                  /\ last' = call @@ [err |-> NoErr, result |-> ZeroResult(username)]
             ELSE IF failAt = "DeleteUserPnlSnapshots"
             THEN /\ snapshots' = snapshots
                  /\ last' = call @@ [err |-> "failed to delete existing snapshots"]
             ELSE IF failAt = "BulkInsertPnlSnapshots" /\ Len(rows) > 0
             THEN /\ snapshots' = deleted
                  /\ last' = call @@ [err |-> "failed to insert snapshots"]
             ELSE /\ snapshots' = BulkInsertPnlSnapshots(deleted, username, rows)
                  /\ last' = call @@
                       [err |-> NoErr,
                        result |-> [Username |-> username,
                                    TradesProcessed |-> Len(slice),
                                    SnapshotsCreated |-> Len(rows),
                                    TotalRealizedPnl |-> st.cumulativeRealizedPnl,
                                    OldestTradeDate |-> st.oldestDate,
                                    NewestTradeDate |-> st.newestDate]]
    /\ UNCHANGED trades
    /\ UNCHANGED ledgerVars
    /\ UNCHANGED <<accountVars, syncVars>>

Init ==
    /\ InitStore
    /\ InitAccounts
    /\ InitIdle
    /\ feed = {}
    /\ processed = <<>>
    /\ turn = "none"
    /\ backfillPass = BackfillLocals
    /\ livePass = LiveLocals

StorageCalls ==
    {"none", "GetUser", "GetUserTradesChronological", "DeleteUserPnlSnapshots",
     "BulkInsertPnlSnapshots"}

Next ==
    \/ \E trade \in StoreTrades : InsertTrade(trade)
    \/ \E username \in Usernames, failAt \in StorageCalls :
          BackfillUser(username, failAt)

Spec == Init /\ [][Next]_vars

\* ------------------------------------------------------- account stats

Assets == {"a1", "a2"}

\* service.users, the configured accounts with their addresses: the first
\* account has two addresses, every other one.
users ==
    [u \in Users |-> IF u = 1 THEN <<"0x1a", "0x1b">>
                     ELSE <<"0x" \o ToString(u) \o "a">>]

\* SELECT COALESCE(SUM(unrealized_pnl), 0): NULLs do not count.
RECURSIVE SumUnrealizedPnl(_)
SumUnrealizedPnl(rows) ==
    IF rows = {} THEN 0
    ELSE LET r == CHOOSE x \in rows : TRUE
         IN  (IF r.unrealizedPnl = <<>> THEN 0 ELSE r.unrealizedPnl[1])
             + SumUnrealizedPnl(rows \ {r})

\* float64(wins) / float64(totalClosed) as the fraction <<wins, totalClosed>>;
\* the zero value of WinRate is <<0, 1>>.
WinRate(wins, totalClosed) == IF totalClosed > 0 THEN <<wins, totalClosed>> ELSE <<0, 1>>

\* Mutant: the official PnL is ignored.
UserStats_IgnoresOfficial(userID, slice, slice2) ==
    LET rows == {r \in positions : r.user = userID}
        unrealizedPnl == SumUnrealizedPnl(rows)
        fifo == CalculateRealizedPnlFromTrades(slice)
        rate == CalculateRealizedPnlFromTrades(slice2)
    IN  [Username |-> userID,
         TotalPnl |-> fifo.realizedPnl + unrealizedPnl,
         RealizedPnl |-> fifo.realizedPnl,
         UnrealizedPnl |-> unrealizedPnl,
         OpenPositions |-> Cardinality(rows),
         TotalTrades |-> Len(slice2),
         WinRate |-> WinRate(rate.wins, rate.totalClosed),
         LastSynced |-> lastSynced[userID]]

\* Mutant: the win rate is computed in the FIFO branch only.
UserStats_WinRateOnlyFifo(userID, slice, slice2) ==
    LET rows == {r \in positions : r.user = userID}
        unrealizedPnl == SumUnrealizedPnl(rows)
        official == officialPnl[userID]
        fifo == CalculateRealizedPnlFromTrades(slice)
        rate == CalculateRealizedPnlFromTrades(slice2)
    IN  [Username |-> userID,
         TotalPnl |-> IF official # <<>> THEN official[1]
                      ELSE fifo.realizedPnl + unrealizedPnl,
         RealizedPnl |-> IF official # <<>> THEN official[1] - unrealizedPnl
                         ELSE fifo.realizedPnl,
         UnrealizedPnl |-> unrealizedPnl,
         OpenPositions |-> Cardinality(rows),
         TotalTrades |-> Len(slice2),
         WinRate |-> IF official # <<>> THEN WinRate(0, 0)
                     ELSE WinRate(rate.wins, rate.totalClosed),
         LastSynced |-> lastSynced[userID]]

\* Mutant: the official PnL is reported as the realized PnL too.
UserStats_OfficialIsRealized(userID, slice, slice2) ==
    LET rows == {r \in positions : r.user = userID}
        unrealizedPnl == SumUnrealizedPnl(rows)
        official == officialPnl[userID]
        fifo == CalculateRealizedPnlFromTrades(slice)
        rate == CalculateRealizedPnlFromTrades(slice2)
    IN  [Username |-> userID,
         TotalPnl |-> IF official # <<>> THEN official[1]
                      ELSE fifo.realizedPnl + unrealizedPnl,
         RealizedPnl |-> IF official # <<>> THEN official[1]
                         ELSE fifo.realizedPnl,
         UnrealizedPnl |-> unrealizedPnl,
         OpenPositions |-> Cardinality(rows),
         TotalTrades |-> Len(slice2),
         WinRate |-> WinRate(rate.wins, rate.totalClosed),
         LastSynced |-> lastSynced[userID]]

\* The UserStats GetUserStats returns when no query fails.  slice is what
\* the ledger pass of the FIFO branch read, slice2 what the pass for the win
\* rate read (two queries; the count of trades is a third).
UserStats(userID, slice, slice2) ==
    LET rows == {r \in positions : r.user = userID}
        unrealizedPnl == SumUnrealizedPnl(rows)
        official == officialPnl[userID]
        fifo == CalculateRealizedPnlFromTrades(slice)
        rate == CalculateRealizedPnlFromTrades(slice2)
    IN  [Username |-> userID,
         TotalPnl |-> IF official # <<>> THEN official[1]
                      ELSE fifo.realizedPnl + unrealizedPnl,
         RealizedPnl |-> IF official # <<>> THEN official[1] - unrealizedPnl
                         ELSE fifo.realizedPnl,
         UnrealizedPnl |-> unrealizedPnl,
         OpenPositions |-> Cardinality(rows),
         TotalTrades |-> Len(slice2),
         WinRate |-> WinRate(rate.wins, rate.totalClosed),
         LastSynced |-> lastSynced[userID]]

\* The error GetUserStats returns when the query failAt fails: every query
\* it makes, in the order it makes them.
StatsError(username, failAt) ==
    IF GetUser(username, failAt) # NoErr THEN GetUser(username, failAt)
    ELSE IF failAt = "GetUserAddresses" THEN "failed to get user addresses"
    ELSE IF failAt = "positions" THEN "failed to get position stats"
    ELSE IF failAt = "CalculateRealizedPnlFromTrades" /\ officialPnl[username] = <<>>
         THEN "failed to calculate realized pnl"
    ELSE IF failAt = "trades" THEN "failed to count trades"
    ELSE IF failAt = "CalculateRealizedPnlFromTrades"
         THEN "failed to calculate win rate"
    ELSE NoErr

StatsCalls ==
    {"none", "GetUser", "GetUserAddresses", "positions",
     "CalculateRealizedPnlFromTrades", "trades"}

\* GetUserStats(ctx, username), a read of the store.
GetUserStats(username, failAt) ==
    /\ IF StatsError(username, failAt) # NoErr
       THEN last' = [op |-> "GetUserStats", username |-> username,
                     err |-> StatsError(username, failAt)]
       ELSE \E slice \in GetUserTradesChronological(username),
               slice2 \in GetUserTradesChronological(username) :
              last' = [op |-> "GetUserStats", username |-> username, err |-> NoErr,
                       stats |-> UserStats(username, slice, slice2)]
    /\ UNCHANGED <<trades, snapshots>>
    /\ UNCHANGED ledgerVars
    /\ UNCHANGED <<accountVars, syncVars>>

\* The stores GetUserStats is asked about in SpecStats: up to MaxStored
\* trades, positions of either account (at most one row per key), an
\* official PnL or none.
StatsPositions ==
    [user : {1}, address : {users[1][1]}, cond : Conditions, asset : {"a1"},
     outcome : {"Yes"}, size : {<<1>>}, avgPrice : {<<50>>},
     unrealizedPnl : {<<>>, <<-1>>}]
    \cup [user : Users, address : {users[1][1]}, cond : Conditions, asset : {"a2"},
          outcome : {"Yes"}, size : {<<1>>}, avgPrice : {<<50>>},
          unrealizedPnl : {<<2>>}]

PositionKey(r) == <<r.user, r.address, r.cond, r.asset>>

InitStats ==
    /\ trades \in {S \in SUBSET {t \in StoreTrades : t.user = 1} :
                      Cardinality(S) <= MaxStored}
    /\ positions \in {S \in SUBSET StatsPositions :
                         \A r, q \in S : PositionKey(r) = PositionKey(q) => r = q}
    /\ officialPnl \in {[u \in Users |-> IF u = 1 THEN o ELSE <<>>] : o \in {<<>>, <<5>>}}
    /\ snapshots = [u \in Users |-> <<>>]
    /\ last = [op |-> "none", err |-> NoErr]
    /\ lastSynced = [u \in Users |-> <<>>]
    /\ InitIdle
    /\ feed = {}
    /\ processed = <<>>
    /\ turn = "none"
    /\ backfillPass = BackfillLocals
    /\ livePass = LiveLocals

NextStats ==
    \E username \in Usernames, failAt \in StatsCalls : GetUserStats(username, failAt)

SpecStats == InitStats /\ [][NextStats]_vars

\* ------------------------------------------------------- persona stats

\* The slugs GetPersonaStats can be asked for: "p1" is the one row of table
\* personas, and every account is one of its users; "p0" names no row.
Slugs == {"p0", "p1"}

GetPersonaUsers(slug) == IF slug = "p1" THEN Users ELSE {}

RECURSIVE SumUsers(_, _)
SumUsers(S, f) ==
    IF S = {} THEN 0
    ELSE LET u == CHOOSE x \in S : TRUE IN f[u] + SumUsers(S \ {u}, f)

\* What each user's GetUserTradesChronological can return, one slice each.
UserSlices(members) ==
    {f \in [members -> UNION {GetUserTradesChronological(u) : u \in members}] :
        \A u \in members : f[u] \in GetUserTradesChronological(u)}

\* The PersonaStats GetPersonaStats returns when no query fails: the loop
\* over the users adds up open positions, unrealized PnL, wins, closed
\* positions, official PnL and trade counts (the realized PnL of
\* CalculateRealizedPnlFromTrades is discarded), and the totals are set
\* after it.
PersonaStats(slug, slices) ==
    LET members == GetPersonaUsers(slug)
        rows == [u \in members |-> {r \in positions : r.user = u}]
        passes == [u \in members |-> CalculateRealizedPnlFromTrades(slices[u])]
        UnrealizedPnl == SumUsers(members, [u \in members |-> SumUnrealizedPnl(rows[u])])
        hasOfficialPnl == \E u \in members : officialPnl[u] # <<>>
        totalOfficialPnl ==
            SumUsers(members, [u \in members |->
                IF officialPnl[u] # <<>> THEN officialPnl[u][1] ELSE 0])
        RealizedPnl == 0
    IN  [Slug |-> slug,
         Usernames |-> members,
         TotalPnl |-> IF hasOfficialPnl THEN totalOfficialPnl
                      ELSE RealizedPnl + UnrealizedPnl,
         RealizedPnl |-> IF hasOfficialPnl THEN totalOfficialPnl - UnrealizedPnl
                         ELSE RealizedPnl,
         UnrealizedPnl |-> UnrealizedPnl,
         OpenPositions |-> SumUsers(members, [u \in members |-> Cardinality(rows[u])]),
         TotalTrades |-> SumUsers(members, [u \in members |-> Len(slices[u])]),
         WinRate |-> WinRate(SumUsers(members, [u \in members |-> passes[u].wins]),
                             SumUsers(members, [u \in members |-> passes[u].totalClosed]))]

\* The error GetPersonaStats returns when the query failAt fails.
PersonaError(slug, failAt) ==
    IF failAt = "GetPersona" THEN "failed to query persona"
    ELSE IF GetPersonaUsers(slug) = {} THEN "persona not found: " \o slug
    ELSE IF failAt = "GetPersonaUsers" THEN "failed to get persona users"
    ELSE IF failAt = "positions" THEN "failed to get position stats for user"
    ELSE IF failAt = "CalculateRealizedPnlFromTrades"
         THEN "failed to calculate win rate for user"
    ELSE IF failAt = "trades" THEN "failed to count trades for user"
    ELSE NoErr

PersonaCalls ==
    {"none", "GetPersona", "GetPersonaUsers", "positions",
     "CalculateRealizedPnlFromTrades", "trades"}

\* GetPersonaStats(ctx, slug), a read of the store.
GetPersonaStats(slug, failAt) ==
    /\ IF PersonaError(slug, failAt) # NoErr
       THEN last' = [op |-> "GetPersonaStats", slug |-> slug,
                     err |-> PersonaError(slug, failAt)]
       ELSE \E slices \in UserSlices(GetPersonaUsers(slug)) :
              last' = [op |-> "GetPersonaStats", slug |-> slug, err |-> NoErr,
                       stats |-> PersonaStats(slug, slices)]
    /\ UNCHANGED <<trades, snapshots>>
    /\ UNCHANGED ledgerVars
    /\ UNCHANGED <<accountVars, syncVars>>

\* The stores GetPersonaStats is asked about in SpecPersona: trades of the
\* first account, at most one per timestamp, positions of either account,
\* and for each account an official PnL or none.
InitPersona ==
    /\ trades \in {S \in SUBSET {t \in StoreTrades : t.user = 1} :
                      \A t, q \in S : t.ts = q.ts => t = q}
    /\ positions \in {S \in SUBSET StatsPositions :
                         \A r, q \in S : PositionKey(r) = PositionKey(q) => r = q}
    /\ officialPnl \in [Users -> {<<>>, <<5>>}]
    /\ snapshots = [u \in Users |-> <<>>]
    /\ last = [op |-> "none", err |-> NoErr]
    /\ lastSynced = [u \in Users |-> <<>>]
    /\ InitIdle
    /\ feed = {}
    /\ processed = <<>>
    /\ turn = "none"
    /\ backfillPass = BackfillLocals
    /\ livePass = LiveLocals

NextPersona ==
    \E slug \in Slugs, failAt \in PersonaCalls : GetPersonaStats(slug, failAt)

SpecPersona == InitPersona /\ [][NextPersona]_vars

\* ------------------------------------------------------ sync service

\* Every configured address.
Addresses == UNION {{users[u][i] : i \in 1..Len(users[u])} : u \in Users}

\* What GetPositions can answer.  For the first address of the first
\* account: one position, or the same one with other numbers and a second
\* one without outcome and cashPnl.  For every other address: one position.
PositionsResponses(address) ==
    IF address = users[1][1]
    THEN { <<[Asset |-> "a1", ConditionID |-> "c1", Outcome |-> "Yes",
              Size |-> <<1>>, AvgPrice |-> <<50>>, UnrealizedPnl |-> <<-1>>]>>,
           <<[Asset |-> "a1", ConditionID |-> "c1", Outcome |-> "Yes",
              Size |-> <<2>>, AvgPrice |-> <<40>>, UnrealizedPnl |-> <<2>>],
             [Asset |-> "a2", ConditionID |-> "c1", Outcome |-> "",
              Size |-> <<1>>, AvgPrice |-> <<>>, UnrealizedPnl |-> <<>>]>> }
    ELSE { <<[Asset |-> "a1", ConditionID |-> "c1", Outcome |-> "Yes",
              Size |-> <<1>>, AvgPrice |-> <<50>>, UnrealizedPnl |-> <<2>>]>> }

\* What GetTrades can answer: a BUY, and for the first address of the first
\* account also the BUY with a later SELL.
TradesResponses(address) ==
    { <<[ConditionID |-> "c1", Outcome |-> "Yes", Side |-> BUY,
         Price |-> 4, Size |-> 1, Timestamp |-> 1]>> }
    \cup IF address = users[1][1]
         THEN { <<[ConditionID |-> "c1", Outcome |-> "Yes", Side |-> BUY,
                   Price |-> 4, Size |-> 1, Timestamp |-> 1],
                  [ConditionID |-> "c1", Outcome |-> "Yes", Side |-> SELL,
                   Price |-> 7, Size |-> 1, Timestamp |-> 2]>> }
         ELSE {}

\* What GetPortfolioStats can return: nothing (a failed fetch, or a page
\* without the numbers) or the all-time PnL the page shows at the time.
PortfolioResponses == {<<>>, <<4 + clock>>}

\* Mutant: the official PnL is written whatever the fetch returned.
OfficialPnlAfter_Overwrites(table, userID, portfolio) ==
    [table EXCEPT ![userID] = portfolio]

\* syncUser: UpdateUserOfficialPnl is called when GetPortfolioStats returned
\* numbers, and not otherwise.
OfficialPnlAfter(table, userID, portfolio) ==
    IF portfolio # <<>> THEN [table EXCEPT ![userID] = portfolio] ELSE table

\* syncAddress: the storage.Position built from a PositionResponse.
dbPos(userID, address, pos) ==
    [user |-> userID, address |-> address, cond |-> pos.ConditionID,
     asset |-> pos.Asset,
     outcome |-> IF pos.Outcome # "" THEN pos.Outcome ELSE NULL,
     size |-> pos.Size, avgPrice |-> pos.AvgPrice,
     unrealizedPnl |-> pos.UnrealizedPnl]

\* syncAddress: the storage.Trade built from a TradeResponse.
dbTrade(userID, trade) ==
    [user |-> userID, cond |-> trade.ConditionID,
     outcome |-> IF trade.Outcome # "" THEN trade.Outcome ELSE NULL,
     side |-> trade.Side, price |-> trade.Price, size |-> trade.Size,
     ts |-> trade.Timestamp]

\* Mutant: a plain INSERT without the unique key.
UpsertPositionRows_Insert(rows, pos) == rows \cup {pos}

\* INSERT INTO positions ... ON CONFLICT(user_id, address, condition_id,
\* asset) DO UPDATE SET ...
UpsertPositionRows(rows, pos) ==
    {r \in rows : PositionKey(r) # PositionKey(pos)} \cup {pos}

\* Mutant: the delete leaves the rows of the user's first address.
DeleteUserPositions_KeepsFirst(rows, userID) ==
    {r \in rows : r.user # userID \/ r.address = users[userID][1]}

\* DELETE FROM positions WHERE user_id = ?.
DeleteUserPositions(rows, userID) == {r \in rows : r.user # userID}

\* Mutant: the trades of the account are replaced by those of the response,
\* as its positions are.
RECURSIVE InsertTrades_Fresh(_, _, _, _)
InsertTrades_Fresh(rows, userID, response, i) ==
    IF i > Len(response) THEN rows
    ELSE InsertTrades_Fresh(
             InsertTradeRows(IF i = 1 THEN {r \in rows : r.user # userID} ELSE rows,
                             dbTrade(userID, response[i])),
             userID, response, i + 1)

\* syncAddress: InsertTrade of every trade of the response, in its order.
RECURSIVE InsertTrades(_, _, _, _)
InsertTrades(rows, userID, response, i) ==
    IF i > Len(response) THEN rows
    ELSE InsertTrades(InsertTradeRows(rows, dbTrade(userID, response[i])),
                      userID, response, i + 1)

\* A cycle is one run of syncAll.  pc is the call the cycle makes next; todo
\* the accounts `range s.users` has not yielded yet; user and addr the
\* account and the index of the address being synced; fetched the positions
\* of the address still to upsert.  The other fields record what the sync of
\* the current account did: got, the positions GetPositions returned, each
\* with its address; prev, the account's rows before the delete; deleted,
\* whether the delete ran; posClean, whether every positions fetch and write
\* succeeded so far; clean, whether every call did; gotTrades, the trades
\* GetTrades returned, each with its address; faults, the calls that
\* failed, as <<call, address>> (the address of a fetch, "" otherwise).
\* failed is the set of accounts of the cycle with a call that did not
\* succeed.
\* request is the state of the HTTP request that triggered a manual cycle:
\* "open" while its handler runs, "returned" once it has answered.
Running(c) == cycles[c].pc # "done"

NewCycle(kind) ==
    [kind |-> kind, pc |-> "syncAll", todo |-> accounts, user |-> 0, addr |-> 0,
     fetched |-> <<>>, got |-> {}, prev |-> {}, deleted |-> FALSE, posClean |-> TRUE,
     clean |-> TRUE, gotTrades |-> {}, faults |-> {}, failed |-> {},
     request |-> IF kind = "manual" THEN "open" ELSE "none"]

\* Mutant: syncAll returns the error of syncUser instead of going on.
NextAccount_Abort(cycle, ok) ==
    [cycle EXCEPT !.pc = "syncAll",
                  !.todo = IF ok THEN @ ELSE {},
                  !.failed = IF cycle.clean THEN @ ELSE @ \cup {cycle.user}]

\* syncAll: syncUser has returned, with nil (ok) or an error, which is logged;
\* the loop goes on with the next account either way.
NextAccount(cycle, ok) ==
    [cycle EXCEPT !.pc = "syncAll",
                  !.failed = IF cycle.clean THEN @ ELSE @ \cup {cycle.user}]

\* The context of cycle c is cancelled: the cycles of Start and syncLoop run
\* on s.ctx, which Stop cancels; the cycle of a TriggerSync runs on the
\* context of the HTTP request, which ends when the handler returns.
Cancelled(c) ==
    \/ cycles[c].kind = "scheduled" /\ loopState # "running"
    \/ cycles[c].kind = "manual" /\ cycles[c].request = "returned"

\* A call of cycle c succeeds, or fails when the environment still has a
\* failure to inject in this run; on a cancelled context it fails.
Fault(c, ok) ==
    IF Cancelled(c)
    THEN ~ok /\ budget' = budget
    ELSE /\ ~ok => budget > 0
         /\ budget' = IF ok THEN budget ELSE budget - 1

\* The ticker fires (the loop runs one cycle at a time; its select can take
\* a tick that is ready together with done, and cannot once it has
\* returned) or TriggerSync is called (in a goroutine of its own).
StartCycle(kind) ==
    /\ Len(cycles) < MaxCycles
    /\ kind = "scheduled" =>
          /\ loopState # "exited"
          /\ \A c \in 1..Len(cycles) : cycles[c].kind = "scheduled" => ~Running(c)
    /\ cycles' = Append(cycles, NewCycle(kind))
    /\ clock' = clock + 1
    /\ last' = [op |-> "StartCycle", err |-> NoErr]
    /\ UNCHANGED <<trades, snapshots, accountVars, accounts, loopState, budget>>
    /\ UNCHANGED ledgerVars

\* syncAll: the loop is at its end.
EndCycle(c) ==
    /\ cycles[c].pc = "syncAll" /\ cycles[c].todo = {}
    /\ cycles' = [cycles EXCEPT ![c].pc = "done"]
    /\ last' = [op |-> "syncAll", err |-> NoErr]
    /\ UNCHANGED <<trades, snapshots, accountVars, clock, accounts, loopState,
                   budget>>
    /\ UNCHANGED ledgerVars

\* syncUser up to DeleteUserPositions: GetUser, then the profile and the
\* official PnL, whose failures are only logged.  portfolio is what
\* GetPortfolioStats returned.
SyncProfile(c, username, getUserOk, portfolio) ==
    /\ cycles[c].pc = "syncAll" /\ username \in cycles[c].todo
    /\ Fault(c, getUserOk)
    /\ LET next == [cycles[c] EXCEPT !.todo = @ \ {username}, !.user = username,
                                     !.addr = 0, !.fetched = <<>>, !.got = {},
                                     !.prev = {r \in positions : r.user = username},
                                     !.deleted = FALSE, !.posClean = TRUE,
                                     !.clean = TRUE, !.gotTrades = {},
                                     !.faults = {}]
       IN  IF getUserOk
           THEN /\ cycles' = [cycles EXCEPT ![c] =
                                 [next EXCEPT !.pc = "DeleteUserPositions"]]
                /\ officialPnl' = OfficialPnlAfter(officialPnl, username, portfolio)
                /\ last' = [op |-> "syncUser", err |-> NoErr]
           ELSE /\ cycles' = [cycles EXCEPT ![c] =
                                 NextAccount([next EXCEPT !.posClean = FALSE,
                                                          !.clean = FALSE,
                                                          !.faults = {<<"GetUser", "">>}],
                                             FALSE)]
                /\ officialPnl' = officialPnl
                /\ last' = [op |-> "syncUser", err |-> "failed to get user"]
    /\ UNCHANGED <<trades, snapshots, positions, lastSynced, clock, accounts, loopState>>
    /\ UNCHANGED ledgerVars

\* Mutant: the loop over the addresses ends at the first address that fails.
AfterAddress_Breaks(cycle) ==
    IF cycle.addr < Len(users[cycle.user]) /\ cycle.clean
    THEN [cycle EXCEPT !.pc = "GetPositions", !.addr = @ + 1, !.fetched = <<>>]
    ELSE [cycle EXCEPT !.pc = "takePnlSnapshot", !.fetched = <<>>]

\* The step after the positions and trades of address addr: the next
\* address, or takePnlSnapshot after the last one.
AfterAddress(cycle) ==
    IF cycle.addr < Len(users[cycle.user])
    THEN [cycle EXCEPT !.pc = "GetPositions", !.addr = @ + 1, !.fetched = <<>>]
    ELSE [cycle EXCEPT !.pc = "takePnlSnapshot", !.fetched = <<>>]

\* syncUser: DeleteUserPositions; its error ends the sync of the account.
SyncDeletePositions(c, ok) ==
    /\ cycles[c].pc = "DeleteUserPositions"
    /\ Fault(c, ok)
    /\ IF ok
       THEN /\ positions' = DeleteUserPositions(positions, cycles[c].user)
            /\ cycles' = [cycles EXCEPT ![c] =
                             AfterAddress([cycles[c] EXCEPT !.deleted = TRUE])]
            /\ last' = [op |-> "DeleteUserPositions", err |-> NoErr]
       ELSE /\ positions' = positions
            /\ cycles' = [cycles EXCEPT ![c] =
                             NextAccount([cycles[c] EXCEPT
                                              !.posClean = FALSE, !.clean = FALSE,
                                              !.faults = @ \cup {<<"DeleteUserPositions", "">>}],
                                         FALSE)]
            /\ last' = [op |-> "syncUser",
                        err |-> "failed to delete existing positions"]
    /\ UNCHANGED <<trades, snapshots, officialPnl, lastSynced, clock, accounts, loopState>>
    /\ UNCHANGED ledgerVars

\* syncAddress: GetPositions.  A failed fetch ends the sync of the address
\* (its trades are not fetched either) and syncUser goes on with the next.
SyncGetPositions(c, ok, response) ==
    /\ cycles[c].pc = "GetPositions"
    /\ Fault(c, ok)
    /\ LET cycle == cycles[c]
           address == users[cycle.user][cycle.addr]
           rows == [i \in 1..Len(response) |-> dbPos(cycle.user, address, response[i])]
       IN  /\ response \in PositionsResponses(address)
           /\ IF ok
              THEN cycles' = [cycles EXCEPT ![c] =
                       [cycle EXCEPT !.pc = IF rows = <<>> THEN "GetTrades"
                                            ELSE "UpsertPosition",
                                     !.fetched = rows,
                                     !.got = @ \cup {[address |-> address,
                                                       pos |-> response[i]] :
                                                         i \in 1..Len(response)}]]
              ELSE cycles' = [cycles EXCEPT ![c] =
                       AfterAddress([cycle EXCEPT
                           !.posClean = FALSE, !.clean = FALSE,
                           !.faults = @ \cup {<<"GetPositions", address>>}])]
    /\ last' = [op |-> "GetPositions",
                err |-> IF ok THEN NoErr ELSE "failed to fetch positions"]
    /\ UNCHANGED <<trades, snapshots, accountVars, clock, accounts, loopState>>
    /\ UNCHANGED ledgerVars

\* syncAddress: UpsertPosition of the next fetched position; its error is
\* logged and the loop goes on.
SyncUpsertPosition(c, ok) ==
    /\ cycles[c].pc = "UpsertPosition"
    /\ Fault(c, ok)
    /\ LET cycle == cycles[c]
           rest == Tail1(cycle.fetched)
       IN  /\ positions' = IF ok THEN UpsertPositionRows(positions, cycle.fetched[1])
                           ELSE positions
           /\ cycles' = [cycles EXCEPT ![c] =
                    [cycle EXCEPT !.fetched = rest,
                                  !.pc = IF rest = <<>> THEN "GetTrades" ELSE @,
                                  !.posClean = @ /\ ok, !.clean = @ /\ ok,
                                  !.faults = IF ok THEN @
                                             ELSE @ \cup {<<"UpsertPosition",
                                                           cycle.fetched[1].address>>}]]
    /\ last' = [op |-> "UpsertPosition",
                err |-> IF ok THEN NoErr ELSE "failed to upsert position"]
    /\ UNCHANGED <<trades, snapshots, officialPnl, lastSynced, clock, accounts, loopState>>
    /\ UNCHANGED ledgerVars

\* A sequence without its k-th element (whole when k = 0).
Without(seq, k) ==
    IF k = 0 THEN seq ELSE SubSeq(seq, 1, k - 1) \o SubSeq(seq, k + 1, Len(seq))

\* syncAddress: GetTrades and InsertTrade of every trade fetched.  A failed
\* fetch is the error of syncAddress, which syncUser logs.  failedAt is the
\* index of the trade whose InsertTrade returns an error, 0 for none: the
\* error is logged at debug level and the loop goes on.
SyncTrades(c, ok, response, failedAt) ==
    /\ cycles[c].pc = "GetTrades"
    /\ Fault(c, ok /\ failedAt = 0)
    /\ Cancelled(c) => ~ok
    /\ failedAt > 0 => ok
    /\ response \in TradesResponses(users[cycles[c].user][cycles[c].addr])
    /\ trades' = IF ok THEN InsertTrades(trades, cycles[c].user,
                                         Without(response, failedAt), 1)
                 ELSE trades
    /\ LET address == users[cycles[c].user][cycles[c].addr]
       IN  cycles' = [cycles EXCEPT ![c] =
             AfterAddress([cycles[c] EXCEPT
                 !.clean = @ /\ ok /\ failedAt = 0,
                 !.gotTrades =
                     IF ok THEN @ \cup {[address |-> address, trade |-> response[i]] :
                                           i \in 1..Len(response)}
                     ELSE @,
                 !.faults =
                     IF ~ok THEN @ \cup {<<"GetTrades", address>>}
                     ELSE IF failedAt > 0 THEN @ \cup {<<"InsertTrade", address>>}
                     ELSE @])]
    /\ last' = [op |-> "GetTrades",
                err |-> IF ok THEN NoErr ELSE "failed to fetch trades",
                response |-> IF ok THEN response ELSE <<>>,
                failedAt |-> failedAt]
    /\ UNCHANGED <<snapshots, accountVars, clock, accounts, loopState>>
    /\ UNCHANGED ledgerVars

\* Mutant: the row is written twice.
InsertPnlSnapshot_Twice(table, snapshot) ==
    [table EXCEPT ![snapshot.UserID] = Append(Append(@, snapshot), snapshot)]

\* InsertPnlSnapshot.
InsertPnlSnapshot(table, snapshot) ==
    [table EXCEPT ![snapshot.UserID] = Append(@, snapshot)]

\* takePnlSnapshot: GetUserStats, then InsertPnlSnapshot; syncUser logs its
\* error and goes on.
SyncTakePnlSnapshot(c, failAt) ==
    /\ cycles[c].pc = "takePnlSnapshot"
    /\ Fault(c, failAt = "none")
    /\ LET userID == cycles[c].user
       IN  IF failAt # "none"
           THEN /\ snapshots' = snapshots
                /\ last' = [op |-> "takePnlSnapshot",
                            err |-> IF failAt = "InsertPnlSnapshot"
                                    THEN "failed to insert pnl snapshot"
                                    ELSE "failed to get user stats"]
           ELSE \E slice \in GetUserTradesChronological(userID),
                   slice2 \in GetUserTradesChronological(userID) :
                  LET stats == UserStats(userID, slice, slice2)
                  IN  /\ snapshots' = InsertPnlSnapshot(snapshots,
                            [UserID |-> userID, Timestamp |-> clock,
                             TotalPnl |-> stats.TotalPnl,
                             RealizedPnl |-> stats.RealizedPnl,
                             UnrealizedPnl |-> stats.UnrealizedPnl])
                      /\ last' = [op |-> "takePnlSnapshot", err |-> NoErr]
    /\ cycles' = [cycles EXCEPT ![c].pc = "UpdateUserLastSynced",
                                ![c].clean = @ /\ failAt = "none",
                                ![c].faults = IF failAt = "none" THEN @
                                              ELSE @ \cup {<<"takePnlSnapshot", "">>}]
    /\ UNCHANGED <<trades, accountVars, clock, accounts, loopState>>
    /\ UNCHANGED ledgerVars

\* syncUser: UpdateUserLastSynced and return.
SyncUpdateLastSynced(c, ok) ==
    /\ cycles[c].pc = "UpdateUserLastSynced"
    /\ Fault(c, ok)
    /\ lastSynced' = IF ok THEN [lastSynced EXCEPT ![cycles[c].user] = <<clock>>]
                     ELSE lastSynced
    /\ cycles' = [cycles EXCEPT ![c] =
                     NextAccount([cycles[c] EXCEPT
                                      !.clean = @ /\ ok,
                                      !.faults = IF ok THEN @
                                                 ELSE @ \cup {<<"UpdateUserLastSynced", "">>}],
                                 ok)]
    /\ last' = [op |-> "syncUser",
                err |-> IF ok THEN NoErr ELSE "failed to update last synced"]
    /\ UNCHANGED <<trades, snapshots, positions, officialPnl, clock, accounts, loopState>>
    /\ UNCHANGED ledgerVars

SnapshotCalls == {"none", "GetUserStats", "InsertPnlSnapshot"}

\* One step of cycle c.
CycleStep(c) ==
    \/ EndCycle(c)
    \/ \E username \in Users, getUserOk \in BOOLEAN, portfolio \in PortfolioResponses :
          SyncProfile(c, username, getUserOk, portfolio)
    \/ \E ok \in BOOLEAN : SyncDeletePositions(c, ok)
    \/ \E ok \in BOOLEAN, response \in UNION {PositionsResponses(a) : a \in Addresses} :
          SyncGetPositions(c, ok, response)
    \/ \E ok \in BOOLEAN : SyncUpsertPosition(c, ok)
    \/ \E ok \in BOOLEAN, response \in UNION {TradesResponses(a) : a \in Addresses} :
          \E failedAt \in 0..Len(response) : SyncTrades(c, ok, response, failedAt)
    \/ \E failAt \in SnapshotCalls : SyncTakePnlSnapshot(c, failAt)
    \/ \E ok \in BOOLEAN : SyncUpdateLastSynced(c, ok)

\* SpecSync: every account is configured, the cycles are those of the ticker
\* loop, and up to MaxFaults calls fail.
InitSync ==
    /\ InitStore
    /\ InitAccounts
    /\ cycles = <<>>
    /\ clock = 0
    /\ accounts = Users
    /\ loopState = "running"
    /\ budget = MaxFaults
    /\ feed = {}
    /\ processed = <<>>
    /\ turn = "none"
    /\ backfillPass = BackfillLocals
    /\ livePass = LiveLocals

NextSync ==
    \/ StartCycle("scheduled")
    \/ \E c \in 1..Len(cycles) : CycleStep(c)

SpecSync == InitSync /\ [][NextSync]_vars

\* SpecOverlap: the first account alone is configured, TriggerSync can start
\* a cycle while another one runs, and no call fails: the request of a
\* TriggerSync stays open while its cycle runs.
InitOverlap ==
    /\ InitStore
    /\ InitAccounts
    /\ cycles = <<>>
    /\ clock = 0
    /\ accounts = {1}
    /\ loopState = "running"
    /\ budget = 0
    /\ feed = {}
    /\ processed = <<>>
    /\ turn = "none"
    /\ backfillPass = BackfillLocals
    /\ livePass = LiveLocals

NextOverlap ==
    \/ \E kind \in {"scheduled", "manual"} : StartCycle(kind)
    \/ \E c \in 1..Len(cycles) : CycleStep(c)

SpecOverlap == InitOverlap /\ [][NextOverlap]_vars

\* Stop (close(done), cancel) or the cancellation of the context Start was
\* given, once Start has returned: its initial sync is over.
Stop ==
    /\ loopState = "running"
    /\ cycles # <<>> /\ ~Running(1)
    /\ loopState' = "stopped"
    /\ last' = [op |-> "Stop", err |-> NoErr]
    /\ UNCHANGED <<trades, snapshots, accountVars, cycles, clock, accounts, budget>>
    /\ UNCHANGED ledgerVars

\* syncLoop: the select takes <-s.done or <-s.ctx.Done() and returns.
LoopExit ==
    /\ loopState = "stopped"
    /\ \A c \in 1..Len(cycles) : cycles[c].kind = "scheduled" => ~Running(c)
    /\ loopState' = "exited"
    /\ last' = [op |-> "syncLoop", err |-> NoErr]
    /\ UNCHANGED <<trades, snapshots, accountVars, cycles, clock, accounts, budget>>
    /\ UNCHANGED ledgerVars

\* SpecStop: the cycles of Start and syncLoop over every account, without
\* injected failures, and a Stop at any time after Start.
NextStop ==
    \/ StartCycle("scheduled")
    \/ \E c \in 1..Len(cycles) : CycleStep(c)
    \/ Stop
    \/ LoopExit

SpecStop == Init /\ [][NextStop]_vars

\* The handler TriggerSync has started the goroutine of cycle c; it writes
\* 202 and returns, after which the server (and the Timeout middleware
\* around the handler) cancels the context of the request.
HandlerReturn(c) ==
    /\ cycles[c].kind = "manual" /\ cycles[c].request = "open"
    /\ cycles' = [cycles EXCEPT ![c].request = "returned"]
    /\ last' = [op |-> "TriggerSync", err |-> NoErr, status |-> 202]
    /\ UNCHANGED <<trades, snapshots, accountVars, clock, accounts, loopState,
                   budget>>
    /\ UNCHANGED ledgerVars

\* The HTTP server is started after Start has returned (main: Start, then
\* NewHandler and the listener): its handlers run once the initial sync is
\* over.
Serving == cycles # <<>> /\ ~Running(1)

\* What a complete sync of account u at time t left in the store when every
\* address answered with the position p and the trade t of its first
\* responses and the portfolio page had no numbers.
FormerPositions(u) ==
    {dbPos(u, users[u][i], (CHOOSE r \in PositionsResponses(users[u][i]) : Len(r) = 1)[1]) :
        i \in 1..Len(users[u])}

FormerTrades(u) ==
    {dbTrade(u, (CHOOSE r \in TradesResponses(users[u][1]) : Len(r) = 1)[1])}

FormerSnapshot(u, t) ==
    [UserID |-> u, Timestamp |-> t,
     TotalPnl |-> SumUnrealizedPnl(FormerPositions(u)),
     RealizedPnl |-> 0,
     UnrealizedPnl |-> SumUnrealizedPnl(FormerPositions(u))]

\* SpecService: the first account alone is configured and no call of the
\* sync fails; the store holds what an earlier run, in which the other
\* accounts were configured too, left of them (one complete sync at time
\* 0).  The ticker cycles run while the handlers BackfillUserPnl and
\* GetUserStats are served.
InitService ==
    /\ trades = UNION {FormerTrades(u) : u \in Users \ {1}}
    /\ positions = UNION {FormerPositions(u) : u \in Users \ {1}}
    /\ snapshots = [u \in Users |-> IF u = 1 THEN <<>> ELSE <<FormerSnapshot(u, 0)>>]
    /\ officialPnl = [u \in Users |-> <<>>]
    /\ lastSynced = [u \in Users |-> IF u = 1 THEN <<>> ELSE <<0>>]
    /\ last = [op |-> "none", err |-> NoErr]
    /\ cycles = <<>>
    /\ clock = 0
    /\ accounts = {1}
    /\ loopState = "running"
    /\ budget = 0
    /\ feed = {}
    /\ processed = <<>>
    /\ turn = "none"
    /\ backfillPass = BackfillLocals
    /\ livePass = LiveLocals

NextService ==
    \/ StartCycle("scheduled")
    \/ \E c \in 1..Len(cycles) : CycleStep(c)
    \/ \E username \in Usernames, failAt \in StorageCalls :
          Serving /\ BackfillUser(username, failAt)
    \/ \E username \in Usernames, failAt \in StatsCalls :
          Serving /\ GetUserStats(username, failAt)

SpecService == InitService /\ [][NextService]_vars

\* SpecTrigger: every account is configured and no failure is injected.
\* After the initial sync of Start the server takes POST /sync: the handler
\* starts the cycle in a goroutine and returns at any time after that.
NextTrigger ==
    \/ cycles = <<>> /\ StartCycle("scheduled")
    \/ Serving /\ StartCycle("manual")
    \/ \E c \in 1..Len(cycles) : CycleStep(c)
    \/ \E c \in 1..Len(cycles) : HandlerReturn(c)

SpecTrigger == Init /\ [][NextTrigger]_vars

\* ------------------------------------------------- properties: the ledger

\* The trade the live loop handles in a LiveStep, and the one the backfill
\* loop has just handled after a BackfillStep.
LastTrade(seq) == seq[Len(seq)]

IsLiveStep == turn = "live" /\ turn' = "backfill"

IsBackfillStep == turn = "backfill" /\ turn' = "live"

ValidSell(trade) == ~HasNilField(trade) /\ trade.side = SELL

ValidBuy(trade) == ~HasNilField(trade) /\ trade.side = BUY

\* Lots of either pass in one shape.
AsLots(fifoLots) ==
    [i \in 1..Len(fifoLots) |-> [price |-> fifoLots[i].Price, size |-> fifoLots[i].Shares]]

RECURSIVE SumSizes(_)
SumSizes(lots) == IF lots = <<>> THEN 0 ELSE lots[1].size + SumSizes(Tail1(lots))

\* Sum over whole lots of (P - lot.price) x lot.size.
RECURSIVE SumWhole(_, _)
SumWhole(lots, P) ==
    IF lots = <<>> THEN 0
    ELSE (P - lots[1].price) * lots[1].size + SumWhole(Tail1(lots), P)

\* Share-by-share FIFO: every bought share queues at its price, every sold
\* share takes the oldest queued share of its key, or none when none is open.
RECURSIVE RefSellShares(_, _, _)
RefSellShares(queue, n, P) ==
    IF n = 0 THEN [pnl |-> 0, queue |-> queue]
    ELSE IF queue = <<>> THEN [pnl |-> P * n, queue |-> <<>>]
    ELSE LET r == RefSellShares(Tail(queue), n - 1, P)
         IN  [pnl |-> (P - Head(queue)) + r.pnl, queue |-> r.queue]

RECURSIVE RefLedger(_, _)
RefLedger(seq, n) ==
    IF n = 0 THEN [shares |-> <<>>, pnl |-> 0]
    ELSE LET s == RefLedger(seq, n - 1)
             t == seq[n]
             key == positionKey(t)
         IN  IF t.outcome = NULL THEN s
             ELSE IF t.side = BUY
             THEN [s EXCEPT !.shares =
                      MapPut(@, key, MapGet(@, key) \o [i \in 1..t.size |-> t.price])]
             ELSE IF t.side = SELL
             THEN LET r == RefSellShares(MapGet(s.shares, key), t.size, t.price)
                  IN  [shares |-> MapPut(s.shares, key, r.queue), pnl |-> s.pnl + r.pnl]
             ELSE s

\* C1: the cumulative realized PnL of the backfill pass equals the sum over
\* every lot consumption of (sellPrice - lotPrice) x matchedSize plus
\* sellPrice x unmatchedSize for the remainders that found no open lot.
C1_BackfillRealizedIsConsumptionSum ==
    backfillPass.cumulativeRealizedPnl = RefLedger(processed, Len(processed)).pnl

\* BUY 1 @ 4, then SELL 2 @ 7 on the same key: one share matched, one not.
C1_Witness ==
    /\ Len(processed) >= 2
    /\ ValidBuy(processed[1]) /\ processed[1].price = 4 /\ processed[1].size = 1
    /\ ValidSell(processed[2]) /\ processed[2].price = 7 /\ processed[2].size = 2
    /\ positionKey(processed[1]) = positionKey(processed[2])
    /\ backfillPass.cumulativeRealizedPnl >= 10

\* C2 (as claimed): in the live pass a SELL on a key without open lot adds
\* P x S to realized PnL, and a SELL that empties the queue with remainder
\* R > 0 adds P x R for the remainder.
C2_LiveZeroCostBasis ==
    [][ (IsLiveStep /\ ValidSell(LastTrade(processed))) =>
          LET t == LastTrade(processed)
              lots == AsLots(MapGet(livePass.inventory, positionKey(t)))
              R == t.size - SumSizes(lots)
          IN  /\ lots = <<>> =>
                   livePass'.realizedPnl = livePass.realizedPnl + t.price * t.size
              /\ (lots # <<>> /\ R > 0) =>
                   livePass'.realizedPnl =
                       livePass.realizedPnl + SumWhole(lots, t.price) + t.price * R
      ]_vars

\* C3 (as claimed): over the same trade slice the live pass and the backfill
\* pass end with the same realized PnL.
C3_LiveEqualsBackfill ==
    turn = "backfill" => livePass.realizedPnl = backfillPass.cumulativeRealizedPnl

\* The queue `new` is `old` after a FIFO consumption: the oldest lots are
\* gone, at most the next one is reduced, every later one is untouched.
FifoConsumed(old, new) ==
    \E m \in 0..Len(old) :
        /\ Len(new) = Len(old) - m
        /\ \A j \in 2..Len(new) : new[j] = old[m + j]
        /\ Len(new) >= 1 =>
              /\ new[1].price = old[m + 1].price
              /\ new[1].size <= old[m + 1].size
              /\ new[1].size > 0

\* C4: in both passes a BUY queues its lot behind the open lots of its key
\* and a SELL consumes the lots of its key oldest first: a lot is reduced or
\* removed only once every earlier lot of the key is gone.
C4_OldestLotFirst ==
    [][ /\ IsBackfillStep =>
            LET t == LastTrade(processed')
                old == MapGet(backfillPass.costBasis, positionKey(t))
                new == MapGet(backfillPass'.costBasis, positionKey(t))
            IN  /\ ValidSell(t) => FifoConsumed(old, new)
                /\ ValidBuy(t) => new = Append(old, [price |-> t.price, size |-> t.size])
        /\ IsLiveStep =>
            LET t == LastTrade(processed)
                old == AsLots(MapGet(livePass.inventory, positionKey(t)))
                new == AsLots(MapGet(livePass'.inventory, positionKey(t)))
            IN  /\ ValidSell(t) => FifoConsumed(old, new)
                /\ ValidBuy(t) => new = Append(old, [price |-> t.price, size |-> t.size])
      ]_vars

\* BUY 1 @ 4, BUY 2 @ 7, SELL 2 on one key: the first lot is gone and the
\* second is cut to one share, in both passes.
C4_Witness ==
    /\ turn = "backfill" /\ Len(processed) = 3
    /\ ValidBuy(processed[1]) /\ processed[1].price = 4 /\ processed[1].size = 1
    /\ ValidBuy(processed[2]) /\ processed[2].price = 7 /\ processed[2].size = 2
    /\ ValidSell(processed[3]) /\ processed[3].size = 2
    /\ positionKey(processed[1]) = positionKey(processed[3])
    /\ positionKey(processed[2]) = positionKey(processed[3])
    /\ backfillPass.costBasis[positionKey(processed[3])] = <<[price |-> 7, size |-> 1]>>
    /\ livePass.inventory[positionKey(processed[3])] = <<[Shares |-> 1, Price |-> 7]>>

\* C5: a SELL of size S smaller than the size L of the oldest open lot of
\* its key leaves that lot at the head with size L - S and its price, leaves
\* the later lots alone and realizes (sellPrice - lotPrice) x S.
PartialSell(t, old, new, before, after) ==
    (ValidSell(t) /\ old # <<>> /\ t.size < old[1].size) =>
        /\ new = [old EXCEPT ![1].size = old[1].size - t.size]
        /\ after = before + (t.price - old[1].price) * t.size

C5_PartialLotStays ==
    [][ /\ IsBackfillStep =>
            LET t == LastTrade(processed') IN
            PartialSell(t,
                        MapGet(backfillPass.costBasis, positionKey(t)),
                        MapGet(backfillPass'.costBasis, positionKey(t)),
                        backfillPass.cumulativeRealizedPnl,
                        backfillPass'.cumulativeRealizedPnl)
        /\ IsLiveStep =>
            LET t == LastTrade(processed) IN
            PartialSell(t,
                        AsLots(MapGet(livePass.inventory, positionKey(t))),
                        AsLots(MapGet(livePass'.inventory, positionKey(t))),
                        livePass.realizedPnl,
                        livePass'.realizedPnl)
      ]_vars

\* BUY 2 @ 4, BUY 1 @ 7, SELL 1 @ 7 on one key: the head lot keeps one share.
C5_Witness ==
    /\ turn = "backfill" /\ Len(processed) = 3
    /\ ValidBuy(processed[1]) /\ processed[1].price = 4 /\ processed[1].size = 2
    /\ ValidBuy(processed[2]) /\ processed[2].price = 7 /\ processed[2].size = 1
    /\ ValidSell(processed[3]) /\ processed[3].price = 7 /\ processed[3].size = 1
    /\ positionKey(processed[1]) = positionKey(processed[3])
    /\ positionKey(processed[2]) = positionKey(processed[3])
    /\ backfillPass.costBasis[positionKey(processed[3])]
           = <<[price |-> 4, size |-> 1], [price |-> 7, size |-> 1]>>
    /\ backfillPass.cumulativeRealizedPnl = 3
    /\ livePass.inventory[positionKey(processed[3])]
           = <<[Shares |-> 1, Price |-> 4], [Shares |-> 1, Price |-> 7]>>
    /\ livePass.realizedPnl = 3

\* The worked example: BUY 10 @ 0.40, BUY 5 @ 0.60, SELL 12 @ 0.70.
ExampleRun ==
    /\ turn = "backfill" /\ Len(processed) = 3
    /\ \A i \in 1..3 : processed[i].cond = "c1" /\ processed[i].outcome = "Yes"
    /\ processed[1].side = BUY /\ processed[1].price = 40 /\ processed[1].size = 10
    /\ processed[2].side = BUY /\ processed[2].price = 60 /\ processed[2].size = 5
    /\ processed[3].side = SELL /\ processed[3].price = 70 /\ processed[3].size = 12

\* C6: the example yields realized PnL 3.20, two wins, no loss, and leaves
\* exactly one lot of 3 shares at 0.60.
C6_WorkedExample ==
    ExampleRun =>
        /\ livePass.realizedPnl = 320
        /\ livePass.wins = 2 /\ livePass.losses = 0
        /\ livePass.inventory = MapPut(<<>>, <<"c1", "Yes">>, <<[Shares |-> 3, Price |-> 60]>>)
        /\ backfillPass.cumulativeRealizedPnl = 320
        /\ backfillPass.costBasis = MapPut(<<>>, <<"c1", "Yes">>, <<[price |-> 60, size |-> 3]>>)

C6_Witness == ExampleRun /\ livePass.wins = 2

\* ------------------------------------- properties: the store and backfill

UserRows(rows, userID) == {r \in rows : r.user = userID}

\* The outcomes a live ledger pass over the user's stored rows can have.
LedgerOutcomes(rows, userID) ==
    {CalculateRealizedPnlFromTrades(slice) :
        slice \in OrderedByTimestamp(UserRows(rows, userID))}

\* C7: InsertTrade of a trade whose natural key (account, condition,
\* timestamp, side, size, price) is stored returns no error and leaves the
\* stored trades as they were, and with them the result of every later
\* ledger pass.
C7_InsertTradeIdempotent ==
    [][ last'.op = "InsertTrade" =>
          LET sameKey == {[r EXCEPT !.outcome = o] :
                             r \in trades, o \in Outcomes \cup {NULL}} \cap StoreTrades
              inserted == {t \in sameKey : InsertTrade(t)}
          IN  inserted # {} =>
                /\ last'.err = NoErr
                /\ trades' = trades
                /\ \A u \in {t.user : t \in inserted} :
                      LedgerOutcomes(trades', u) = LedgerOutcomes(trades, u)
      ]_vars

\* An insert that hit the unique key has just returned.
C7_Witness ==
    /\ last.op = "InsertTrade" /\ last.rowsAffected = 0 /\ last.err = NoErr
    /\ trades # {}

\* BackfillUser has just returned without error for a user with stored
\* trades (the trades table is as the call read it).
BackfillDone ==
    /\ last.op = "BackfillUser" /\ last.err = NoErr
    /\ UserRows(trades, last.username) # {}

\* The days on which the user has a SELL with every field present.
SellDays(userID) ==
    {Truncate(r.ts) : r \in {q \in UserRows(trades, userID) :
                                 q.outcome # NULL /\ q.side = SELL}}

\* The trades of a chronological slice up to the end of the day that starts
\* at `day`.
ThroughDay(slice, day) == SelectSeq(slice, LAMBDA t : Truncate(t.ts) <= day)

RefPnl(slice) == RefLedger(slice, Len(slice)).pnl

C9_SnapshotIsCumulative ==
    BackfillDone =>
        LET rows == snapshots[last.username] IN
        \E slice \in GetUserTradesChronological(last.username) :
            /\ \A i \in 1..Len(rows) :
                  rows[i].RealizedPnl = RefPnl(ThroughDay(slice, rows[i].Timestamp))
            /\ last.result.TotalRealizedPnl = RefPnl(slice)
            /\ \A i \in 1..Len(rows) :
                  (\A j \in 1..Len(rows) : rows[j].Timestamp <= rows[i].Timestamp) =>
                      rows[i].RealizedPnl = last.result.TotalRealizedPnl

\* Two SELLs on the first day and one on the last: two snapshots, the first
\* holding the sum of the first day's SELLs.
C9_Witness ==
    /\ BackfillDone
    /\ Cardinality({r \in UserRows(trades, last.username) :
                       r.outcome # NULL /\ r.side = SELL /\ Truncate(r.ts) = 0}) = 2
    /\ Len(snapshots[last.username]) = 2
    /\ snapshots[last.username][1].RealizedPnl > 7
    /\ snapshots[last.username][2].RealizedPnl > snapshots[last.username][1].RealizedPnl

\* The snapshot rows a replay of the slice calls for.
ExpectedSnapshots(userID, slice) ==
    { [UserID |-> userID, Timestamp |-> d,
       TotalPnl |-> RefPnl(ThroughDay(slice, d)),
       RealizedPnl |-> RefPnl(ThroughDay(slice, d)),
       UnrealizedPnl |-> 0] : d \in SellDays(userID) }

BackfillFailed ==
    /\ last.op = "BackfillUser" /\ last.username \in Users
    /\ last.err # NoErr

\* The rows are a complete newly computed history of the user.
IsNewSet(userID, rows) ==
    \E slice \in GetUserTradesChronological(userID) :
        /\ {rows[i] : i \in 1..Len(rows)} = ExpectedSnapshots(userID, slice)
        /\ Len(rows) = Cardinality(ExpectedSnapshots(userID, slice))

\* C11: when BackfillUser fails at any step, the user's stored snapshots are
\* the complete old set or the complete new set, never deleted without
\* replacement.
C11_AtomicReplace ==
    BackfillFailed =>
        \/ snapshots[last.username] = last.before
        \/ IsNewSet(last.username, snapshots[last.username])

\* C12: two consecutive successful runs of BackfillUser for a user, with no
\* trade inserted in between, leave the same snapshots and return the same
\* Result, whatever order trades of one timestamp are read in.
C12_BackfillDeterministic ==
    [][ ( /\ last.op = "BackfillUser" /\ last.err = NoErr
          /\ last'.op = "BackfillUser" /\ last'.err = NoErr
          /\ last'.username = last.username
          /\ trades' = trades ) =>
            /\ snapshots'[last.username] = snapshots[last.username]
            /\ last'.result = last.result
      ]_vars

\* C13: BackfillUser for an existing user without stored trades fails only
\* when a storage read fails, and otherwise returns no error and a Result
\* with TradesProcessed, SnapshotsCreated and TotalRealizedPnl 0 and no
\* oldest or newest trade date.
C13_ZeroTrades ==
    ( /\ last.op = "BackfillUser" /\ last.username \in Users
      /\ UserRows(trades, last.username) = {} ) =>
        /\ last.err \in {NoErr, "failed to get user: failed to query user",
                         "failed to get trades"}
        /\ last.err = NoErr =>
              /\ last.result.TradesProcessed = 0
              /\ last.result.SnapshotsCreated = 0
              /\ last.result.TotalRealizedPnl = 0
              /\ last.result.OldestTradeDate = <<>>
              /\ last.result.NewestTradeDate = <<>>
              /\ BackfillUserPnl(last.username, last.err) = 200

\* A user without trades (another user has some) got the zero Result.
C13_Witness ==
    /\ last.op = "BackfillUser" /\ last.username \in Users
    /\ UserRows(trades, last.username) = {}
    /\ trades # {}
    /\ last.err = NoErr
    /\ last.result.TradesProcessed = 0

\* C14: BackfillUser for a name without a users row returns the error
\* "user not found" (the handler answers 404) unless the users query itself
\* fails (500); it never returns a Result and it changes no stored row; and
\* no call for an existing user is answered 404.
C14_UserNotFound ==
    [][ last'.op = "BackfillUser" =>
          LET status == BackfillUserPnl(last'.username, last'.err)
          IN  /\ last'.username \notin Users =>
                    /\ \/ /\ last'.err = "failed to get user: user not found: "
                                           \o Sprintf(last'.username)
                          /\ status = 404
                       \/ /\ last'.err = "failed to get user: failed to query user"
                          /\ status = 500
                    /\ "result" \notin DOMAIN last'
                    /\ trades' = trades
                    /\ snapshots' = snapshots
              /\ last'.username \in Users => status # 404
      ]_vars

\* A backfill of a missing name has returned "user not found" while trades
\* and snapshots are stored.
C14_Witness ==
    /\ last.op = "BackfillUser" /\ last.username \notin Users
    /\ last.err = "failed to get user: user not found: " \o Sprintf(last.username)
    /\ BackfillUserPnl(last.username, last.err) = 404
    /\ trades # {}
    /\ \E u \in Users : snapshots[u] # <<>>

\* ------------------------------------------- properties: account stats

\* GetUserStats has just returned stats.
StatsReturned == last.op = "GetUserStats" /\ last.err = NoErr

\* The sum of the non-NULL unrealized PnL of the user's stored positions,
\* value by value.
RECURSIVE SumByValue(_, _)
SumByValue(rows, values) ==
    IF values = {} THEN 0
    ELSE LET v == CHOOSE x \in values : TRUE
         IN  v * Cardinality({r \in rows : r.unrealizedPnl = <<v>>})
             + SumByValue(rows, values \ {v})

RefUnrealized(userID) ==
    LET rows == {r \in positions : r.user = userID /\ r.unrealizedPnl # <<>>}
    IN  SumByValue(rows, {r.unrealizedPnl[1] : r \in rows})

\* C15: when the user's official PnL is not NULL, GetUserStats returns it as
\* TotalPnl, the sum of the unrealized PnL of the stored positions as
\* UnrealizedPnl, and TotalPnl - UnrealizedPnl as RealizedPnl, whatever the
\* stored trades are.
C15_OfficialPrecedence ==
    (StatsReturned /\ officialPnl[last.username] # <<>>) =>
        /\ last.stats.TotalPnl = officialPnl[last.username][1]
        /\ last.stats.UnrealizedPnl = RefUnrealized(last.username)
        /\ last.stats.RealizedPnl = last.stats.TotalPnl - last.stats.UnrealizedPnl

\* Official PnL 5 with positions worth 1 and a stored BUY and SELL whose
\* ledger result is 3: the stats report 5 and 4.
C15_Witness ==
    /\ StatsReturned /\ officialPnl[last.username] = <<5>>
    /\ RefUnrealized(last.username) = 1
    /\ \E slice \in GetUserTradesChronological(last.username) :
          CalculateRealizedPnlFromTrades(slice).realizedPnl = 3
    /\ last.stats.TotalPnl = 5
    /\ last.stats.RealizedPnl = 4

\* C16 (as claimed): without official PnL, GetUserStats returns the FIFO
\* ledger's realized PnL over the stored trades, the sum of the unrealized
\* PnL of the stored positions, and their sum as TotalPnl.
C16_FifoFallback ==
    (StatsReturned /\ officialPnl[last.username] = <<>>) =>
        /\ \E slice \in GetUserTradesChronological(last.username) :
              last.stats.RealizedPnl = RefPnl(slice)
        /\ last.stats.UnrealizedPnl = RefUnrealized(last.username)
        /\ last.stats.TotalPnl = last.stats.RealizedPnl + last.stats.UnrealizedPnl

\* C17: with or without official PnL, WinRate is wins / (wins + losses) of a
\* ledger pass over the user's stored trades; it is 0 when the pass closed no
\* leg, and it lies between 0 and 1.
C17_WinRate ==
    StatsReturned =>
        /\ \E slice \in GetUserTradesChronological(last.username) :
              LET pass == LiveLoopOver(LiveLocals, slice, 1)
              IN  /\ pass.wins + pass.losses > 0 =>
                        last.stats.WinRate = <<pass.wins, pass.wins + pass.losses>>
                  /\ pass.wins + pass.losses = 0 => last.stats.WinRate[1] = 0
        /\ last.stats.WinRate[2] > 0
        /\ 0 <= last.stats.WinRate[1]
        /\ last.stats.WinRate[1] <= last.stats.WinRate[2]

\* An account with official PnL whose one closed leg was a win: rate 1 / 1.
C17_Witness ==
    /\ StatsReturned /\ officialPnl[last.username] # <<>>
    /\ last.stats.WinRate = <<1, 1>>
    /\ Cardinality(UserRows(trades, last.username)) >= 2

\* ---------------------------------------------- properties: the sync service

\* The rows cycle c built from the positions it fetched for the account it
\* is working on.
GotRows(c) == {dbPos(cycles[c].user, g.address, g.pos) : g \in cycles[c].got}

\* Cycle c has upserted row r in the sync of the account it is working on.
Upserted(c, r) ==
    /\ cycles[c].pc \notin {"syncAll", "done"}
    /\ r \in GotRows(c)
    /\ \A i \in 1..Len(cycles[c].fetched) : cycles[c].fetched[i] # r

\* C18: in every reachable state, whatever the sequence and interleaving of
\* sync cycles, the positions store holds at most one row per (account,
\* address, condition, asset).
C18_OneRowPerKey ==
    \A r1 \in positions, r2 \in positions :
        PositionKey(r1) = PositionKey(r2) => r1 = r2

\* Two overlapping cycles have both written the same key, with different
\* numbers, since they deleted the account's rows.
C18_Witness ==
    /\ last.op = "UpsertPosition"
    /\ \E c1 \in 1..Len(cycles), c2 \in 1..Len(cycles) :
          /\ c1 # c2
          /\ cycles[c1].user = cycles[c2].user
          /\ \E r1 \in GotRows(c1), r2 \in GotRows(c2) :
                /\ PositionKey(r1) = PositionKey(r2) /\ r1 # r2
                /\ Upserted(c1, r1) /\ Upserted(c2, r2)
                /\ r1 \in positions \/ r2 \in positions

\* The positions stored for an account and the positions cycle c fetched
\* for the account it is working on, as (address, condition, asset, size,
\* price, unrealized PnL).
StoredPositions(userID) ==
    {<<r.address, r.cond, r.asset, r.size, r.avgPrice, r.unrealizedPnl>> :
        r \in {q \in positions : q.user = userID}}

UpstreamPositions(c) ==
    {<<g.address, g.pos.ConditionID, g.pos.Asset, g.pos.Size, g.pos.AvgPrice,
       g.pos.UnrealizedPnl>> : g \in cycles[c].got}

\* Cycle c is past the positions of every address of an account, no cycle
\* has started since and no other cycle is running.
PositionsSynced(c) ==
    /\ c = Len(cycles)
    /\ cycles[c].user # 0
    /\ cycles[c].pc \in {"takePnlSnapshot", "UpdateUserLastSynced", "syncAll", "done"}
    /\ \A c2 \in 1..Len(cycles) : c2 # c => ~Running(c2)

\* C19: once the sync of an account is through with every positions fetch and
\* write succeeding and no other cycle running, the account's stored
\* positions are exactly the positions returned upstream for its addresses
\* in that cycle, size, price and unrealized PnL unchanged, one row each; no
\* row of an earlier cycle is left.
C19_PositionsReplaced ==
    \A c \in 1..Len(cycles) :
        PositionsSynced(c) /\ cycles[c].posClean =>
            /\ StoredPositions(cycles[c].user) = UpstreamPositions(c)
            /\ Cardinality({r \in positions : r.user = cycles[c].user})
                  = Cardinality(cycles[c].got)

\* A second cycle has replaced the rows of an account, one of which is gone.
C19_Witness ==
    \E c \in 1..Len(cycles) :
        /\ c > 1
        /\ PositionsSynced(c) /\ cycles[c].posClean
        /\ cycles[c].pc = "takePnlSnapshot"
        /\ \E r \in cycles[c].prev :
              \A q \in positions : PositionKey(q) # PositionKey(r)
        /\ \E r \in cycles[c].prev, q \in positions :
              PositionKey(q) = PositionKey(r) /\ q # r

\* C20: the delete-and-replace of an account's positions is atomic: when the
\* sync of an account has failed after its positions were deleted, the
\* account's stored positions are the complete previous set or the complete
\* new set.
C20_AtomicReplace ==
    \A c \in 1..Len(cycles) :
        PositionsSynced(c) /\ cycles[c].deleted /\ ~cycles[c].posClean =>
            LET rows == {r \in positions : r.user = cycles[c].user}
            IN  \/ rows = cycles[c].prev
                \/ /\ rows = GotRows(c)
                   /\ \A i \in 1..Len(users[cycles[c].user]) :
                         \E g \in cycles[c].got :
                            g.address = users[cycles[c].user][i]

\* Account userID has the snapshot and the last-synced time of the cycle
\* that runs at the current clock.
StampedNow(userID) ==
    /\ lastSynced[userID] = <<clock>>
    /\ snapshots[userID] # <<>>
    /\ snapshots[userID][Len(snapshots[userID])].Timestamp = clock

\* C21: in every sync cycle, when the pipeline of one account fails at some
\* step, every other configured account is still synced to completion in
\* that cycle (positions replaced, trades ingested, snapshot appended,
\* last-synced recorded), and the cycle ends without an error.
C21_FailureIsolation ==
    \A c \in 1..Len(cycles) :
        c = Len(cycles) =>
            /\ ( /\ cycles[c].pc \in {"syncAll", "done"}
                 /\ cycles[c].user # 0 /\ cycles[c].clean )
               => /\ StoredPositions(cycles[c].user) = UpstreamPositions(c)
                  /\ cycles[c].gotTrades # {}
                  /\ \A g \in cycles[c].gotTrades :
                        dbTrade(cycles[c].user, g.trade) \in trades
                  /\ StampedNow(cycles[c].user)
            /\ cycles[c].pc = "done"
               => /\ \A u \in accounts \ cycles[c].failed :
                        /\ StampedNow(u)
                        /\ \E r \in positions : r.user = u
                        /\ \E t \in trades : t.user = u
                  /\ last.op = "syncAll" => last.err = NoErr

\* A cycle has ended in which one account failed and another one did not.
C21_Witness ==
    /\ cycles # <<>>
    /\ cycles[Len(cycles)].pc = "done"
    /\ cycles[Len(cycles)].failed # {}
    /\ accounts \ cycles[Len(cycles)].failed # {}
    /\ last.op = "syncAll"

\* Every cycle started has completed, and there are two of them.
BothCompleted ==
    /\ Len(cycles) = 2
    /\ \A c \in 1..Len(cycles) : ~Running(c)

\* The trades the cycles fetched for an account, as stored rows.
FetchedTrades(userID) ==
    UNION {{dbTrade(userID, g.trade) : g \in cycles[c].gotTrades} :
              c \in 1..Len(cycles)}

\* The stored trades of the account are the union of the trades the cycles
\* fetched.
TradesConverged == UserRows(trades, 1) = FetchedTrades(1)

\* C22: when a scheduled and a manually triggered cycle for the same account
\* interleave, once both have completed the stored trades are the
\* dedup-union of the trades both fetched and the stored positions are the
\* position set one of the two cycles fetched, with no row left over.
C22_OverlapConverges ==
    BothCompleted =>
        /\ TradesConverged
        /\ \E c \in 1..Len(cycles) :
              {r \in positions : r.user = 1} = GotRows(c)

\* ------------------------------------------------- properties: backfill rows

\* C23: every snapshot written by backfill has unrealized PnL 0 and total
\* PnL equal to its realized PnL.
C23_BackfillUnrealizedZero ==
    BackfillDone =>
        \A i \in 1..Len(snapshots[last.username]) :
            /\ snapshots[last.username][i].UnrealizedPnl = 0
            /\ snapshots[last.username][i].TotalPnl
                  = snapshots[last.username][i].RealizedPnl

\* A backfill has written two rows with a realized PnL other than zero.
C23_Witness ==
    /\ BackfillDone
    /\ Len(snapshots[last.username]) = 2
    /\ \A i \in 1..Len(snapshots[last.username]) :
          snapshots[last.username][i].RealizedPnl # 0

\* --------------------------------------- properties: the ledger, continued

\* The realized contributions of a SELL of n shares at price P against the
\* open lots of its key, one per lot it consumes (whole or in part).
RECURSIVE Contributions(_, _, _)
Contributions(lots, n, P) ==
    IF n = 0 \/ lots = <<>> THEN <<>>
    ELSE IF lots[1].size <= n
    THEN <<(P - lots[1].price) * lots[1].size>>
            \o Contributions(Tail1(lots), n - lots[1].size, P)
    ELSE <<(P - lots[1].price) * n>>

CountOf(seq, Test(_)) == Cardinality({i \in 1..Len(seq) : Test(seq[i])})

\* C24: in the live-stats pass each lot consumption of a SELL adds one to the
\* win counter iff its contribution is above zero, one to the loss counter
\* iff it is below zero, nothing when it is zero; nothing else changes the
\* counters.
C24_WinLossCounters ==
    [][ /\ IsLiveStep =>
            LET t == LastTrade(processed)
                old == AsLots(MapGet(livePass.inventory, positionKey(t)))
                parts == IF ValidSell(t) THEN Contributions(old, t.size, t.price)
                         ELSE <<>>
            IN  /\ livePass'.wins = livePass.wins + CountOf(parts, LAMBDA x : x > 0)
                /\ livePass'.losses = livePass.losses + CountOf(parts, LAMBDA x : x < 0)
        /\ ~IsLiveStep => livePass'.wins = livePass.wins
                          /\ livePass'.losses = livePass.losses
      ]_vars

\* BUY 1 @ 7, BUY 1 @ 4, SELL 2 @ 4: a loss on the first lot, nothing on the
\* second.
C24_Witness ==
    /\ turn = "backfill" /\ Len(processed) = 3
    /\ ValidBuy(processed[1]) /\ processed[1].price = 7 /\ processed[1].size = 1
    /\ ValidBuy(processed[2]) /\ processed[2].price = 4 /\ processed[2].size = 1
    /\ ValidSell(processed[3]) /\ processed[3].price = 4 /\ processed[3].size = 2
    /\ positionKey(processed[1]) = positionKey(processed[3])
    /\ positionKey(processed[2]) = positionKey(processed[3])
    /\ livePass.wins = 0 /\ livePass.losses = 1
    /\ MapGet(livePass.inventory, positionKey(processed[3])) = <<>>

\* The trades handled so far that have an outcome.
Complete(seq) == SelectSeq(seq, LAMBDA t : t.outcome # NULL)

OtherKeys(old, new, key) == ((DOMAIN old) \cup (DOMAIN new)) \ {key}

\* C26: a BUY or SELL on a position key never adds, reduces or removes a lot
\* of another key, and the realized PnL of a SELL is the one the SELL
\* realizes against the lots of its own key alone.
C26_KeysIsolated ==
    [][ /\ IsBackfillStep =>
            LET t == LastTrade(processed')
                key == <<t.cond, t.outcome>>
                old == backfillPass.costBasis
                new == backfillPass'.costBasis
                alone == BackfillTrade(
                             [BackfillLocals EXCEPT
                                 !.costBasis = MapPut(<<>>, key, MapGet(old, key))], t)
            IN  t.outcome # NULL =>
                  /\ \A k \in OtherKeys(old, new, key) : MapGet(new, k) = MapGet(old, k)
                  /\ backfillPass'.cumulativeRealizedPnl
                        - backfillPass.cumulativeRealizedPnl
                        = alone.cumulativeRealizedPnl
                  /\ MapGet(new, key) = MapGet(alone.costBasis, key)
        /\ IsLiveStep =>
            LET t == LastTrade(processed)
                key == <<t.cond, t.outcome>>
                old == livePass.inventory
                new == livePass'.inventory
                alone == LiveTrade(
                             [LiveLocals EXCEPT
                                 !.inventory = MapPut(<<>>, key, MapGet(old, key))], t)
            IN  t.outcome # NULL =>
                  /\ \A k \in OtherKeys(old, new, key) : MapGet(new, k) = MapGet(old, k)
                  /\ livePass'.realizedPnl - livePass.realizedPnl = alone.realizedPnl
                  /\ MapGet(new, key) = MapGet(alone.inventory, key)
      ]_vars

\* A lot is open on each of two keys, and a SELL on one key has found that
\* key without a lot and left the lot of the other in place.
C26_Witness ==
    /\ turn = "backfill" /\ Len(processed) = 3
    /\ ValidBuy(processed[1]) /\ processed[1].outcome = "Yes"
    /\ ValidBuy(processed[2]) /\ processed[2].outcome = "No"
    /\ ValidSell(processed[3]) /\ processed[3].outcome = "No"
    /\ MapGet(livePass.inventory, <<"c1", "No">>) = <<>>
    /\ Len(MapGet(livePass.inventory, <<"c1", "Yes">>)) = 1
    /\ MapGet(backfillPass.costBasis, <<"c1", "No">>) = <<>>
    /\ Len(MapGet(backfillPass.costBasis, <<"c1", "Yes">>)) = 1

\* ------------------------------------------------ properties: cancellation

\* C27: once the orchestrator is stopped or its context cancelled, no new
\* sync cycle starts and a cycle in progress starts no further per-account
\* pipeline.
C27_Cancellation ==
    [][ loopState # "running" =>
          /\ Len(cycles') = Len(cycles)
          /\ \A c \in 1..Len(cycles) : cycles'[c].todo = cycles[c].todo
      ]_vars

\* ------------------------------------- properties: the sync of one account

\* syncUser has returned for the account of cycle c, the latest cycle.
AccountReturned(c) ==
    /\ c = Len(cycles)
    /\ cycles[c].user # 0
    /\ cycles[c].pc \in {"syncAll", "done"}

AddressesOf(userID) == {users[userID][i] : i \in 1..Len(users[userID])}

\* The positions and trades cycle c fetched for address b are stored, and
\* it fetched some.
AddressPersisted(c, b) ==
    /\ \E g \in cycles[c].got : g.address = b
    /\ {r \in positions : r.user = cycles[c].user /\ r.address = b}
          = {dbPos(cycles[c].user, g.address, g.pos) :
                g \in {h \in cycles[c].got : h.address = b}}
    /\ \E g \in cycles[c].gotTrades : g.address = b
    /\ \A g \in cycles[c].gotTrades :
          g.address = b => dbTrade(cycles[c].user, g.trade) \in trades

\* C28: when the upstream fetches of one address of an account fail
\* (positions or trades; a failed profile or lifetime-stats fetch leaves
\* the official PnL alone), the positions and trades of the account's other
\* addresses are still fetched and persisted in the same cycle, and the
\* account's snapshot and last-synced update take place.
C28_PerAddressTolerance ==
    \A c \in 1..Len(cycles) :
        ( /\ AccountReturned(c)
          /\ \A f \in cycles[c].faults : f[1] \in {"GetPositions", "GetTrades"}
          /\ Cardinality({f[2] : f \in cycles[c].faults}) <= 1 )
        => /\ \A b \in AddressesOf(cycles[c].user) \ {f[2] : f \in cycles[c].faults} :
                 AddressPersisted(c, b)
           /\ StampedNow(cycles[c].user)

\* The positions fetch of the first of two addresses has failed.
C28_Witness ==
    \E c \in 1..Len(cycles) :
        /\ AccountReturned(c)
        /\ cycles[c].faults = {<<"GetPositions", users[cycles[c].user][1]>>}
        /\ Len(users[cycles[c].user]) = 2
        /\ officialPnl[cycles[c].user] = <<>>
        /\ \E r \in positions : r.address = users[cycles[c].user][2]

\* The snapshots of an account taken at the current clock.
SnapshotsNow(table, userID) ==
    {i \in 1..Len(table[userID]) : table[userID][i].Timestamp = clock}

\* The row takePnlSnapshot builds for an account from the stores as they are.
StatsRows(userID) ==
    {[UserID |-> userID, Timestamp |-> clock,
      TotalPnl |-> UserStats(userID, slice, slice2).TotalPnl,
      RealizedPnl |-> UserStats(userID, slice, slice2).RealizedPnl,
      UnrealizedPnl |-> UserStats(userID, slice, slice2).UnrealizedPnl] :
        slice \in GetUserTradesChronological(userID),
        slice2 \in GetUserTradesChronological(userID)}

\* C29: within one account's sync the positions are replaced and the trades
\* ingested for every address before the stats are computed, then one
\* PnlSnapshot carrying those stats is appended, then the last-synced time
\* is written; an account sync in which every step succeeded appends
\* exactly one snapshot, and none appends more.
C29_StepOrder ==
    [][ /\ snapshots' # snapshots =>
              \E c \in 1..Len(cycles) : cycles[c].pc = "takePnlSnapshot"
        /\ lastSynced' # lastSynced =>
              \E c \in 1..Len(cycles) : cycles[c].pc = "UpdateUserLastSynced"
        /\ \A c \in 1..Len(cycles) :
          LET u == cycles[c].user IN
          /\ (cycles[c].pc # cycles'[c].pc /\ cycles'[c].pc = "takePnlSnapshot")
                => /\ cycles[c].pc \in {"DeleteUserPositions", "GetPositions", "GetTrades"}
                   /\ cycles'[c].addr = Len(users[u])
          /\ cycles[c].pc = "takePnlSnapshot"
                => /\ cycles'[c].pc = "UpdateUserLastSynced"
                   /\ positions' = positions /\ trades' = trades
                   /\ lastSynced' = lastSynced
                   /\ \/ snapshots' = snapshots
                      \/ \E row \in StatsRows(u) :
                            snapshots' = [snapshots EXCEPT ![u] = Append(@, row)]
          /\ cycles[c].pc = "UpdateUserLastSynced"
                => /\ cycles'[c].pc = "syncAll"
                   /\ positions' = positions /\ trades' = trades
                   /\ snapshots' = snapshots
                   /\ \/ lastSynced' = lastSynced
                      \/ lastSynced' = [lastSynced EXCEPT ![u] = <<clock>>]
          /\ (cycles'[c].pc = "syncAll" /\ cycles'[c].user # 0 /\ c = Len(cycles'))
                => /\ Cardinality(SnapshotsNow(snapshots', cycles'[c].user)) <= 1
                   /\ cycles'[c].clean =>
                         /\ Cardinality(SnapshotsNow(snapshots', cycles'[c].user)) = 1
                         /\ lastSynced'[cycles'[c].user] = <<clock>>
      ]_vars

\* A sync of the account with two addresses has gone through in the second
\* cycle, with a snapshot that differs from the one of the first cycle.
C29_Witness ==
    \E c \in 1..Len(cycles) :
        /\ c = 2 /\ AccountReturned(c) /\ cycles[c].clean
        /\ Len(users[cycles[c].user]) = 2
        /\ Len(snapshots[cycles[c].user]) = 2
        /\ snapshots[cycles[c].user][1].TotalPnl # snapshots[cycles[c].user][2].TotalPnl
        /\ lastSynced[cycles[c].user] = <<clock>>

\* ------------------------------------------ properties: persistence failure

\* The writes of syncAddress for an address that have failed in cycle c.
WriteFaults(cycle, address) ==
    cycle.faults \cap {<<"UpsertPosition", address>>, <<"InsertTrade", address>>}

\* C30: a storage write that fails during an account's sync is propagated
\* and aborts the pipeline step it is in: the sync of an address writes
\* nothing after a failed UpsertPosition or InsertTrade, a failed delete or
\* last-synced update ends the account's sync, a failed snapshot insert
\* leaves the snapshots alone; the cycle goes on with the other accounts.
C30_WriteFailureAborts ==
    [][ \A c \in 1..Len(cycles) :
          LET cycle == cycles[c] IN
          /\ ( /\ cycle.pc \in {"UpsertPosition", "GetTrades"}
               /\ WriteFaults(cycle, users[cycle.user][cycle.addr]) # {} )
             => positions' = positions /\ trades' = trades
          /\ ( /\ cycle.pc = "GetTrades" /\ cycles'[c].pc # "GetTrades"
               /\ last'.op = "GetTrades" /\ last'.failedAt > 0 )
             => trades' = InsertTrades(trades, cycle.user,
                                       SubSeq(last'.response, 1, last'.failedAt - 1), 1)
          /\ ( /\ cycles'[c].faults \ cycle.faults
                     \subseteq {<<"DeleteUserPositions", "">>,
                                <<"UpdateUserLastSynced", "">>}
               /\ cycles'[c].faults # cycle.faults /\ cycles'[c].user = cycle.user )
             => /\ cycles'[c].pc = "syncAll"
                /\ cycles'[c].todo = cycle.todo
                /\ last'.err # NoErr
          /\ <<"takePnlSnapshot", "">> \in cycles'[c].faults \ cycle.faults
             => snapshots' = snapshots /\ cycles'[c].pc = "UpdateUserLastSynced"
      ]_vars

\* ------------------------------------------ properties: the whole service

\* C31: stored trades are append-only.  No step of a sync cycle, no stats
\* query and no backfill removes a row of table trades or changes a field of
\* one (a changed row would be a removed row and a new one): the rows before
\* a step are all among the rows after it.
C31_TradesAppendOnly == [][trades \subseteq trades']_vars

\* Two cycles have ingested the trades of account 1 (the second one fetched
\* rows that were stored already), the rows of the other accounts are still
\* there, and a backfill of account 1 has just written its snapshots.
C31_Witness ==
    /\ Len(cycles) = 2 /\ ~Running(2)
    /\ Cardinality({r \in trades : r.user = 1}) = 2
    /\ \A u \in Users \ {1} : FormerTrades(u) \subseteq trades
    /\ last.op = "BackfillUser" /\ last.err = NoErr /\ last.username = 1
    /\ Len(snapshots[1]) > 0

\* GetUserPositions: the rows of the account, as a reader gets them.
GetUserPositions(userID) == {r \in positions : r.user = userID}

\* Cycle c has synced the account and syncUser has returned.
Returned(c, userID) ==
    /\ userID \in accounts \ cycles[c].todo
    /\ cycles[c].user = userID => cycles[c].pc \in {"syncAll", "done"}

\* Some cycle is in syncUser for the account.
Syncing(userID) ==
    \E c \in 1..Len(cycles) :
        cycles[c].user = userID /\ cycles[c].pc \notin {"syncAll", "done"}

\* C32: a reader can find an account whose upstream position list is not
\* empty (every upstream list is non-empty here) without stored positions
\* only while a sync of the account is running: once a sync of the account
\* has completed successfully, the account has stored positions in every
\* state in which none of its syncs is running.
C32_ZeroOnlyMidCycle ==
    \A userID \in accounts :
        ( /\ \E c \in 1..Len(cycles) :
                Returned(c, userID) /\ userID \notin cycles[c].failed
          /\ ~Syncing(userID) )
        => GetUserPositions(userID) # {}

\* C33: every row of pnl_snapshots, whether takePnlSnapshot appended it (from
\* the official PnL or from the ledger) or a backfill wrote it, has its
\* three PnL columns set, and its total is its realized plus its unrealized
\* PnL.
C33_SnapshotTotalIsSum ==
    \A u \in Users :
        \A i \in 1..Len(snapshots[u]) :
            /\ snapshots[u][i].TotalPnl \in Int
            /\ snapshots[u][i].RealizedPnl \in Int
            /\ snapshots[u][i].UnrealizedPnl \in Int
            /\ snapshots[u][i].TotalPnl
                  = snapshots[u][i].RealizedPnl + snapshots[u][i].UnrealizedPnl

\* The snapshots of account 1 are a row a backfill wrote, with a realized
\* PnL, and after it a row of a sync that used the official PnL while the
\* positions had an unrealized PnL; another account has a row of a sync
\* that used the ledger.
C33_Witness ==
    /\ Len(snapshots[1]) = 2
    /\ snapshots[1][1].UnrealizedPnl = 0 /\ snapshots[1][1].RealizedPnl # 0
    /\ officialPnl[1] # <<>>
    /\ snapshots[1][2].TotalPnl = officialPnl[1][1]
    /\ snapshots[1][2].UnrealizedPnl # 0
    /\ snapshots[1][2].Timestamp = clock
    /\ \E u \in Users \ {1} :
          /\ officialPnl[u] = <<>>
          /\ snapshots[u] # <<>>
          /\ snapshots[u][1].UnrealizedPnl # 0

\* --------------------------------------- properties: the ledger, once more

\* The shares bought on a key in the first n trades of seq, and the shares
\* of its SELLs that found an open share: a SELL matches as many shares as
\* are open, up to its size.
RECURSIVE Tally(_, _, _)
Tally(seq, key, n) ==
    IF n = 0 THEN [bought |-> 0, matched |-> 0]
    ELSE LET prev == Tally(seq, key, n - 1)
             t == seq[n]
             open == prev.bought - prev.matched
         IN  IF HasNilField(t) \/ positionKey(t) # key THEN prev
             ELSE IF t.side = BUY THEN [prev EXCEPT !.bought = @ + t.size]
             ELSE IF t.side = SELL
             THEN [prev EXCEPT !.matched = @ + IF t.size < open THEN t.size ELSE open]
             ELSE prev

\* The keys of the trades processed so far.
ProcessedKeys(seq) == {positionKey(seq[i]) : i \in 1..Len(seq)}

\* The queues of a pass conserve the shares of seq: every queued lot has a
\* size above zero, and the sizes queued on a key add up to the shares
\* bought on it minus the shares its SELLs matched.
Conserved(queues, seq) ==
    /\ \A key \in DOMAIN queues :
          \A i \in 1..Len(queues[key]) : queues[key][i].size > 0
    /\ \A key \in ProcessedKeys(seq) \cup DOMAIN queues :
          SumSizes(MapGet(queues, key))
             = Tally(seq, key, Len(seq)).bought - Tally(seq, key, Len(seq)).matched

LiveQueues(inventory) == [key \in DOMAIN inventory |-> AsLots(inventory[key])]

\* C34: shares are conserved in both ledgers.  The trades of the feeds have
\* sizes above zero.  After every trade a pass has processed, each lot it
\* has queued has a size above zero and the sizes queued on a key are the
\* shares bought on it minus the shares matched by its SELLs; and for a
\* SELL, the shares it took from the queue of its key and the remainder the
\* loop ends with add up to its size.
C34_ShareConservation ==
    [][ /\ IsBackfillStep =>
            LET t == LastTrade(processed')
                old == MapGet(backfillPass.costBasis, positionKey(t))
                new == MapGet(backfillPass'.costBasis, positionKey(t))
            IN  /\ Conserved(backfillPass'.costBasis, processed')
                /\ ValidSell(t) =>
                      /\ SumSizes(old) - SumSizes(new) \in 0..t.size
                      /\ (SumSizes(old) - SumSizes(new))
                            + fifoLoop(old, t.size, t.price, 0).remainingToSell
                         = t.size
        /\ IsLiveStep =>
            LET t == LastTrade(processed)
                old == AsLots(MapGet(livePass.inventory, positionKey(t)))
                new == AsLots(MapGet(livePass'.inventory, positionKey(t)))
            IN  /\ Conserved(LiveQueues(livePass'.inventory), processed)
                /\ ValidSell(t) =>
                      /\ SumSizes(old) - SumSizes(new) \in 0..t.size
                      /\ (SumSizes(old) - SumSizes(new))
                            + liveLoop(MapGet(livePass.inventory, positionKey(t)),
                                       t.size, t.price,
                                       [realizedPnl |-> 0, wins |-> 0, losses |-> 0]
                                      ).remainingToSell
                         = t.size
      ]_vars

\* BUY 2, SELL 1 (the lot stays with one share), SELL 2 on the same key (one
\* share matched, one left over), then a BUY of one share, each processed
\* by both passes.
C34_Witness ==
    /\ Len(processed) = 4 /\ turn = "backfill"
    /\ \A i \in 1..4 : ~HasNilField(processed[i])
                        /\ positionKey(processed[i]) = positionKey(processed[1])
    /\ processed[1].side = BUY /\ processed[1].size = 2
    /\ processed[2].side = SELL /\ processed[2].size = 1
    /\ processed[3].side = SELL /\ processed[3].size = 2
    /\ processed[4].side = BUY /\ processed[4].size = 1
    /\ SumSizes(MapGet(backfillPass.costBasis, positionKey(processed[1]))) = 1
    /\ SumSizes(AsLots(MapGet(livePass.inventory, positionKey(processed[1])))) = 1

\* ------------------------------------------- properties: the manual sync

\* C35: the cycle a POST /sync starts in the background runs to completion
\* over every configured account although the handler has answered 202 and
\* the request has ended: when the cycle is over, no call of it has failed,
\* and every account has its positions and trades stored, a snapshot of the
\* cycle and the last-synced time of the cycle.
C35_ManualSyncCompletes ==
    \A c \in 1..Len(cycles) :
        (cycles[c].kind = "manual" /\ cycles[c].pc = "done") =>
            /\ cycles[c].failed = {}
            /\ \A u \in accounts :
                  /\ StampedNow(u)
                  /\ GetUserPositions(u) # {}
                  /\ \E t \in trades : t.user = u

\* ------------------------------------- properties: the sync, continued

\* Cycle c is about to record the last-synced time of its account.
Recording(c, userID) ==
    cycles[c].user = userID /\ cycles[c].pc = "UpdateUserLastSynced"

\* C36: a cycle advances the last-synced time of an account only if it has
\* deleted the account's positions, every positions fetch of the account
\* succeeded in it, and it appended a snapshot: a step that changes
\* last-synced is the last step of such a sync.
C36_LastSyncedAfterFullSync ==
    [][ \A u \in Users :
          lastSynced'[u] # lastSynced[u] =>
             \E c \in 1..Len(cycles) :
                /\ Recording(c, u)
                /\ cycles[c].deleted
                /\ \A f \in cycles[c].faults :
                      f[1] \notin {"GetPositions", "takePnlSnapshot"}
                /\ snapshots[u] # <<>>
                /\ snapshots[u][Len(snapshots[u])].Timestamp = clock
      ]_vars

\* C37: an official PnL, once stored, is never cleared.  No step of a sync
\* cycle (a fetch of the lifetime stats that fails or returns nothing
\* included), of a stats query or of a backfill sets a stored official PnL
\* back to NULL; it changes only to the value a sync has just fetched; and
\* while it is stored, GetUserStats (asked by a reader or by takePnlSnapshot)
\* reports it as the total PnL, the realized PnL being the rest after the
\* unrealized PnL.
C37_OfficialPnlSticky ==
    [][ /\ \A u \in Users :
              /\ officialPnl[u] # <<>> => officialPnl'[u] # <<>>
              /\ officialPnl'[u] # officialPnl[u] =>
                    /\ last'.op = "syncUser" /\ last'.err = NoErr
                    /\ officialPnl'[u] \in PortfolioResponses \ {<<>>}
              /\ ( /\ officialPnl[u] # <<>>
                   /\ last'.op = "takePnlSnapshot"
                   /\ Len(snapshots'[u]) > Len(snapshots[u]) )
                 => snapshots'[u][Len(snapshots'[u])].TotalPnl = officialPnl[u][1]
        /\ ( /\ last'.op = "GetUserStats" /\ last'.err = NoErr
             /\ officialPnl[last'.username] # <<>> )
           => /\ last'.stats.TotalPnl = officialPnl[last'.username][1]
              /\ last'.stats.RealizedPnl
                    = last'.stats.TotalPnl - last'.stats.UnrealizedPnl
      ]_vars

\* The first cycle stored the official PnL of its time, the second cycle
\* fetched nothing, a backfill has rewritten the account's snapshots, and a
\* reader is told the value of the first cycle.
C37_Witness ==
    /\ Len(cycles) = 2 /\ ~Running(2)
    /\ clock = 2 /\ officialPnl[1] = <<5>>
    /\ snapshots[1] # <<>> /\ snapshots[1][1].UnrealizedPnl = 0
    /\ last.op = "GetUserStats" /\ last.err = NoErr /\ last.username = 1
    /\ last.stats.TotalPnl = 5
    /\ last.stats.UnrealizedPnl # 0

\* C38: BackfillUser for an account changes nothing but the snapshots of
\* that account.  Whatever it returns, the trades, the positions, the
\* official PnL and last-synced time of every account and the snapshots of
\* every other account are after the call what they were before it.
C38_BackfillFrame ==
    [][ last'.op = "BackfillUser" =>
           /\ trades' = trades
           /\ positions' = positions
           /\ officialPnl' = officialPnl
           /\ lastSynced' = lastSynced
           /\ \A u \in Users : u # last'.username => snapshots'[u] = snapshots[u]
      ]_vars

\* A backfill of account 1 has replaced its snapshots while the store held
\* snapshots of another account, positions and trades of both, and an
\* official PnL and a last-synced time of account 1.
C38_Witness ==
    /\ last.op = "BackfillUser" /\ last.err = NoErr /\ last.username = 1
    /\ snapshots[1] # <<>> /\ snapshots[1] # last.before
    /\ \E u \in Users \ {1} :
          /\ snapshots[u] # <<>>
          /\ GetUserPositions(u) # {}
          /\ \E t \in trades : t.user = u
    /\ GetUserPositions(1) # {}
    /\ officialPnl[1] # <<>>
    /\ lastSynced[1] # <<>>

\* ------------------------------------- properties: the persona stats

\* C39: the stats of a persona are the sums of the stats of its accounts.
\* When GetPersonaStats returns, its total, realized and unrealized PnL are
\* each the sum over the persona's users of what GetUserStats reports for
\* them on the same store (the official PnL of an account that has one, the
\* PnL of the ledger for the others), for some order in which the trades of
\* equal time can be read.
C39_PersonaIsSumOfAccounts ==
    (last.op = "GetPersonaStats" /\ last.err = NoErr) =>
        LET members == GetPersonaUsers(last.slug) IN
        \E slices \in UserSlices(members) :
            LET stats == [u \in members |-> UserStats(u, slices[u], slices[u])] IN
            /\ last.stats.TotalPnl
                  = SumUsers(members, [u \in members |-> stats[u].TotalPnl])
            /\ last.stats.RealizedPnl
                  = SumUsers(members, [u \in members |-> stats[u].RealizedPnl])
            /\ last.stats.UnrealizedPnl
                  = SumUsers(members, [u \in members |-> stats[u].UnrealizedPnl])


====
